---- MODULE Spec2Model ----
(***************************************************************************)
(* AgentBridge generic native host (src/agent-bridge-host.js): the broker  *)
(* that reads length-prefixed JSON frames from stdin, resolves the host    *)
(* name in the config file, runs one child process per request and writes  *)
(* the child's result back as a length-prefixed JSON frame.                *)
(*                                                                         *)
(* Bytes are naturals below 256.  A JavaScript string is a sequence of     *)
(* code points of the Basic Multilingual Plane (one UTF-16 unit each), so  *)
(* Len(s) is s.length and Len(Utf8Encode(s)) is Buffer.byteLength(s).      *)
(* A JSON value is a tagged record:                                        *)
(*   [t |-> "null"], [t |-> "bool", b], [t |-> "num", n], [t |-> "str", s],*)
(*   [t |-> "arr", a], [t |-> "obj", o]  with o a sequence of <<key, value>>*)
(*   pairs in property order, and [t |-> "undefined"] for a missing one.   *)
(***************************************************************************)
EXTENDS Integers, Sequences, FiniteSets, TLC

(***************************************************************************)
(* UTF-8                                                                   *)
(***************************************************************************)

\* The UTF-8 bytes of one code point of the Basic Multilingual Plane.
Utf8Char(c) ==
  IF c < 128 THEN <<c>>
  ELSE IF c < 2048 THEN <<192 + (c \div 64), 128 + (c % 64)>>
  ELSE <<224 + (c \div 4096), 128 + ((c \div 64) % 64), 128 + (c % 64)>>

\* The UTF-8 bytes of a string: what process.stdout.write(string) puts on
\* the pipe and what Buffer.byteLength counts. The string is encoded half
\* by half, which keeps the evaluation shallow.
RECURSIVE Utf8Encode(_)
Utf8Encode(s) ==
  IF s = <<>> THEN <<>>
  ELSE IF Len(s) = 1 THEN Utf8Char(s[1])
  ELSE LET h == Len(s) \div 2
       IN  Utf8Encode(SubSeq(s, 1, h)) \o Utf8Encode(SubSeq(s, h + 1, Len(s)))

IsCont(x) == x >= 128 /\ x <= 191

\* Whether y may follow the lead byte x of a two- or three-byte sequence.
IsSecond(x, y) ==
  IF x >= 194 /\ x <= 223 THEN IsCont(y)
  ELSE IF x = 224 THEN y >= 160 /\ y <= 191
  ELSE IF x = 237 THEN y >= 128 /\ y <= 159
  ELSE IF x > 224 /\ x <= 239 THEN IsCont(y)
  ELSE FALSE

ByteAt(b, i) == IF i >= 1 /\ i <= Len(b) THEN b[i] ELSE 0

\* Whether byte i continues a sequence begun one or two bytes earlier. A
\* lead byte is never a continuation byte, so this is decided locally.
Utf8Continues(b, i) ==
  \/ IsSecond(ByteAt(b, i - 1), b[i])
  \/ /\ ByteAt(b, i - 2) >= 224
     /\ ByteAt(b, i - 2) <= 239
     /\ IsSecond(ByteAt(b, i - 2), ByteAt(b, i - 1))
     /\ IsCont(b[i])

\* The code point decoded at byte i, where a sequence begins: U+FFFD for
\* an ill-formed or truncated one.
Utf8Unit(b, i) ==
  LET x == b[i] IN
  IF x < 128 THEN x
  ELSE IF x >= 194 /\ x <= 223 THEN
         IF IsSecond(x, ByteAt(b, i + 1)) THEN (x - 192) * 64 + (b[i + 1] - 128) ELSE 65533
  ELSE IF x >= 224 /\ x <= 239 THEN
         IF IsSecond(x, ByteAt(b, i + 1)) /\ IsCont(ByteAt(b, i + 2))
         THEN (x - 224) * 4096 + (b[i + 1] - 128) * 64 + (b[i + 2] - 128)
         ELSE 65533
  ELSE 65533

\* Buffer.toString('utf-8'): every maximal ill-formed subsequence decodes
\* to one U+FFFD. Four-byte sequences (lead bytes 240..244) give surrogate
\* pairs and are outside the byte values the model draws.
Utf8Decode(b) ==
  LET Begins(i) == ~Utf8Continues(b, i)
      starts == SelectSeq([i \in 1..Len(b) |-> i], Begins)
  IN  [j \in 1..Len(starts) |-> Utf8Unit(b, starts[j])]

(***************************************************************************)
(* JSON values                                                             *)
(***************************************************************************)

JNull == [t |-> "null"]
JUndefined == [t |-> "undefined"]
JBool(b) == [t |-> "bool", b |-> b]
JNum(n) == [t |-> "num", n |-> n]
JStr(s) == [t |-> "str", s |-> s]
JArr(a) == [t |-> "arr", a |-> a]
JObj(o) == [t |-> "obj", o |-> o]

\* The decimal digits of a natural number.
RECURSIVE Digits(_)
Digits(n) == IF n < 10 THEN <<48 + n>> ELSE Digits(n \div 10) \o <<48 + (n % 10)>>

IsDigit(c) == c >= 48 /\ c <= 57

\* The value of a string of decimal digits.
RECURSIVE DigitsValue(_)
DigitsValue(s) ==
  IF s = <<>> THEN 0 ELSE DigitsValue(SubSeq(s, 1, Len(s) - 1)) * 10 + (s[Len(s)] - 48)

\* A property key that is a canonical array index ("0", "7", "12"): such
\* keys are enumerated first, in ascending order.
IsIndexKey(k) ==
  /\ k # <<>>
  /\ Len(k) <= 9
  /\ \A i \in 1..Len(k) : IsDigit(k[i])
  /\ (Len(k) > 1 => k[1] # 48)

\* Own property lookup on an object's member list.
RECURSIVE ObjGet(_, _)
ObjGet(o, k) ==
  IF o = <<>> THEN JUndefined
  ELSE IF o[1][1] = k THEN o[1][2]
  ELSE ObjGet(Tail(o), k)

ObjHas(o, k) == \E i \in 1..Len(o) : o[i][1] = k

\* Whether key k is enumerated before key j in a JavaScript object that
\* does not hold k yet.
KeyBefore(k, j) ==
  IF IsIndexKey(k)
  THEN IsIndexKey(j) /\ DigitsValue(k) < DigitsValue(j)
  ELSE FALSE

\* Defining property k: an existing key keeps its place and takes the new
\* value; a new index key goes among the index keys, any other at the end.
ObjPut(o, k, v) ==
  IF ObjHas(o, k)
  THEN [i \in 1..Len(o) |-> IF o[i][1] = k THEN <<k, v>> ELSE o[i]]
  ELSE LET n == Cardinality({i \in 1..Len(o) :
                               IsIndexKey(o[i][1]) /\ ~KeyBefore(k, o[i][1])})
           at == IF IsIndexKey(k) THEN n ELSE Len(o)
       IN  SubSeq(o, 1, at) \o << <<k, v>> >> \o SubSeq(o, at + 1, Len(o))

(***************************************************************************)
(* JSON.stringify                                                          *)
(***************************************************************************)

HexDigit(d) == IF d < 10 THEN 48 + d ELSE 87 + d

\* One character of a string inside its quotes.
QuoteChar(c) ==
  IF c = 34 THEN <<92, 34>>
  ELSE IF c = 92 THEN <<92, 92>>
  ELSE IF c = 8 THEN <<92, 98>>
  ELSE IF c = 9 THEN <<92, 116>>
  ELSE IF c = 10 THEN <<92, 110>>
  ELSE IF c = 12 THEN <<92, 102>>
  ELSE IF c = 13 THEN <<92, 114>>
  ELSE IF c < 32 THEN <<92, 117, 48, 48, HexDigit(c \div 16), HexDigit(c % 16)>>
  ELSE <<c>>

\* The characters of a string, each quoted; half by half.
RECURSIVE QuoteChars(_)
QuoteChars(s) ==
  IF s = <<>> THEN <<>>
  ELSE IF Len(s) = 1 THEN QuoteChar(s[1])
  ELSE LET h == Len(s) \div 2
       IN  QuoteChars(SubSeq(s, 1, h)) \o QuoteChars(SubSeq(s, h + 1, Len(s)))

Quote(s) == <<34>> \o QuoteChars(s) \o <<34>>

RECURSIVE Stringify(_)
RECURSIVE StringifyElems(_, _)
RECURSIVE StringifyMembers(_, _, _)

\* The elements of an array from index i on, comma separated; an
\* undefined element is written null.
StringifyElems(a, i) ==
  IF i > Len(a) THEN <<>>
  ELSE (IF i > 1 THEN <<44>> ELSE <<>>)
       \o (IF a[i] = JUndefined THEN <<110, 117, 108, 108>> ELSE Stringify(a[i]))
       \o StringifyElems(a, i + 1)

\* The members of an object from index i on; a member whose value is
\* undefined is left out. first: no member has been written yet.
StringifyMembers(o, i, first) ==
  IF i > Len(o) THEN <<>>
  ELSE IF o[i][2] = JUndefined THEN StringifyMembers(o, i + 1, first)
  ELSE (IF first THEN <<>> ELSE <<44>>)
       \o Quote(o[i][1]) \o <<58>> \o Stringify(o[i][2])
       \o StringifyMembers(o, i + 1, FALSE)

\* JSON.stringify(v), for v other than undefined.
Stringify(v) ==
  IF v.t = "null" THEN <<110, 117, 108, 108>>
  ELSE IF v.t = "bool" THEN (IF v.b THEN <<116, 114, 117, 101>> ELSE <<102, 97, 108, 115, 101>>)
  ELSE IF v.t = "num" THEN (IF v.n < 0 THEN <<45>> \o Digits(0 - v.n) ELSE Digits(v.n))
  ELSE IF v.t = "str" THEN Quote(v.s)
  ELSE IF v.t = "arr" THEN <<91>> \o StringifyElems(v.a, 1) \o <<93>>
  ELSE <<123>> \o StringifyMembers(v.o, 1, TRUE) \o <<125>>

(***************************************************************************)
(* JSON.parse                                                              *)
(***************************************************************************)

\* A parse step either fails or yields a value and the index after it.
PFail == [ok |-> FALSE]
POk(v, i) == [ok |-> TRUE, v |-> v, i |-> i]

IsWs(c) == c = 32 \/ c = 9 \/ c = 10 \/ c = 13

RECURSIVE SkipWs(_, _)
SkipWs(t, i) == IF i <= Len(t) /\ IsWs(t[i]) THEN SkipWs(t, i + 1) ELSE i

\* The character at index i, or 0 past the end (0 is no JSON token).
At(t, i) == IF i >= 1 /\ i <= Len(t) THEN t[i] ELSE 0

HasPrefixAt(t, i, p) == i + Len(p) - 1 <= Len(t) /\ SubSeq(t, i, i + Len(p) - 1) = p

IsHex(c) == IsDigit(c) \/ (c >= 97 /\ c <= 102) \/ (c >= 65 /\ c <= 70)
HexVal(c) == IF IsDigit(c) THEN c - 48 ELSE IF c >= 97 THEN c - 87 ELSE c - 55

\* The escape character e after a backslash, for the one-letter escapes.
EscapeValue(e) ==
  IF e = 98 THEN 8
  ELSE IF e = 102 THEN 12
  ELSE IF e = 110 THEN 10
  ELSE IF e = 114 THEN 13
  ELSE IF e = 116 THEN 9
  ELSE e

IsSimpleEscape(e) == e \in {34, 92, 47, 98, 102, 110, 114, 116}

\* How many backslashes stand immediately before index j, from lo on.
BackslashRun(t, lo, j) ==
  Cardinality({m \in 1..(j - lo) : \A i \in (j - m)..(j - 1) : t[i] = 92})

\* Index i holds a backslash that begins an escape (it is not itself
\* escaped). lo is the first index of the string's content.
IsEscapeStart(t, lo, i) ==
  i >= lo /\ i <= Len(t) /\ t[i] = 92 /\ BackslashRun(t, lo, i) % 2 = 0

\* Index i belongs to an escape begun at an earlier index.
InEscape(t, lo, i) ==
  \/ IsEscapeStart(t, lo, i - 1)
  \/ \E d \in 2..5 : IsEscapeStart(t, lo, i - d) /\ t[i - d + 1] = 117

\* The escape begun at index i is well formed and ends before index e.
ValidEscape(t, i, e) ==
  \/ i + 1 < e /\ IsSimpleEscape(t[i + 1])
  \/ i + 5 < e /\ t[i + 1] = 117 /\ \A k \in (i + 2)..(i + 5) : IsHex(t[k])

\* The character that the unit begun at index i stands for.
CharValue(t, i) ==
  IF t[i] # 92 THEN t[i]
  ELSE IF t[i + 1] = 117
       THEN HexVal(t[i + 2]) * 4096 + HexVal(t[i + 3]) * 256 + HexVal(t[i + 4]) * 16 + HexVal(t[i + 5])
       ELSE EscapeValue(t[i + 1])

\* The index of the first quote from lo on that no backslash escapes, or
\* 0 when there is none. The text is searched sixteen characters at a time.
RECURSIVE ClosingQuote(_, _, _)
ClosingQuote(t, lo, from) ==
  IF from > Len(t) THEN 0
  ELSE IF \E j \in from..(from + 15) :
            j <= Len(t) /\ t[j] = 34 /\ BackslashRun(t, lo, j) % 2 = 0
       THEN CHOOSE j \in from..(from + 15) :
              /\ j <= Len(t) /\ t[j] = 34 /\ BackslashRun(t, lo, j) % 2 = 0
              /\ \A k \in from..(j - 1) : ~(t[k] = 34 /\ BackslashRun(t, lo, k) % 2 = 0)
       ELSE ClosingQuote(t, lo, from + 16)

\* The indices in lo..e-1 where a character or an escape begins.
UnitStarts(t, lo, e) ==
  SelectSeq([i \in 1..(e - lo) |-> lo + i - 1], LAMBDA i : ~InEscape(t, lo, i))

\* The string whose units begin at starts and whose closing quote is at e:
\* a raw control character or an ill-formed escape makes the parse fail.
StringValue(t, e, starts) ==
  IF \A j \in 1..Len(starts) :
       /\ t[starts[j]] >= 32
       /\ (t[starts[j]] = 92 => ValidEscape(t, starts[j], e))
  THEN POk(JStr([j \in 1..Len(starts) |-> CharValue(t, starts[j])]), e + 1)
  ELSE PFail

StringUpTo(t, lo, e) == IF e = 0 THEN PFail ELSE StringValue(t, e, UnitStarts(t, lo, e))

\* A string literal whose content begins at index lo (after the opening
\* quote) and ends at the first quote that no backslash escapes.
ParseChars(t, lo) == StringUpTo(t, lo, ClosingQuote(t, lo, lo))

\* The first index from j on that holds no decimal digit.
RECURSIVE DigitsEnd(_, _)
DigitsEnd(t, j) == IF IsDigit(At(t, j)) THEN DigitsEnd(t, j + 1) ELSE j

\* The number whose digits are t[j..k-1]; a fraction or an exponent after
\* them would give a non-integer: no text of the model carries one, and it
\* is rejected.
NumberValue(t, neg, j, k) ==
  IF At(t, k) \in {46, 101, 69} THEN PFail
  ELSE IF neg THEN POk(JNum(0 - DigitsValue(SubSeq(t, j, k - 1))), k)
  ELSE POk(JNum(DigitsValue(SubSeq(t, j, k - 1))), k)

NumberFrom(t, neg, j) ==
  IF ~IsDigit(At(t, j)) THEN PFail
  ELSE IF At(t, j) = 48 THEN NumberValue(t, neg, j, j + 1)
  ELSE NumberValue(t, neg, j, DigitsEnd(t, j))

\* A number literal at index i: an optional minus sign and an integer
\* without leading zeros.
ParseNumber(t, i) == IF At(t, i) = 45 THEN NumberFrom(t, TRUE, i + 1) ELSE NumberFrom(t, FALSE, i)

RECURSIVE ParseValue(_, _)
RECURSIVE ParseElems(_, _, _)
RECURSIVE ParseMembers(_, _, _)

\* After element r of an array, at index k: a comma, or the closing bracket.
ElemsSep(t, k, acc) ==
  IF At(t, k) = 44 THEN ParseElems(t, k + 1, acc)
  ELSE IF At(t, k) = 93 THEN POk(JArr(acc), k + 1)
  ELSE PFail

ElemsAfter(t, r, acc) ==
  IF ~r.ok THEN PFail ELSE ElemsSep(t, SkipWs(t, r.i), Append(acc, r.v))

\* The elements of an array from index j on, up to the closing bracket.
ParseElems(t, j, acc) == ElemsAfter(t, ParseValue(t, j), acc)

\* After a member of an object, at index k: a comma, or the closing brace.
MembersSep(t, k, o) ==
  IF At(t, k) = 44 THEN ParseMembers(t, k + 1, o)
  ELSE IF At(t, k) = 125 THEN POk(JObj(o), k + 1)
  ELSE PFail

MemberAfter(t, key, r, acc) ==
  IF ~r.ok THEN PFail ELSE MembersSep(t, SkipWs(t, r.i), ObjPut(acc, key, r.v))

MemberValue(t, key, c, acc) ==
  IF At(t, c) # 58 THEN PFail ELSE MemberAfter(t, key, ParseValue(t, c + 1), acc)

MemberColon(t, ks, acc) ==
  IF ~ks.ok THEN PFail ELSE MemberValue(t, ks.v.s, SkipWs(t, ks.i), acc)

MemberKey(t, j, acc) ==
  IF At(t, j) # 34 THEN PFail ELSE MemberColon(t, ParseChars(t, j + 1), acc)

\* The members of an object from index j0 on, up to the closing brace.
ParseMembers(t, j0, acc) == MemberKey(t, SkipWs(t, j0), acc)

ArrayFrom(t, j) == IF At(t, j) = 93 THEN POk(JArr(<<>>), j + 1) ELSE ParseElems(t, j, <<>>)

ObjectFrom(t, j) == IF At(t, j) = 125 THEN POk(JObj(<<>>), j + 1) ELSE ParseMembers(t, j, <<>>)

\* The value that begins at index i, which holds no white space.
ValueAt(t, i, c) ==
  IF c = 110 THEN (IF HasPrefixAt(t, i, <<110, 117, 108, 108>>) THEN POk(JNull, i + 4) ELSE PFail)
  ELSE IF c = 116 THEN (IF HasPrefixAt(t, i, <<116, 114, 117, 101>>) THEN POk(JBool(TRUE), i + 4) ELSE PFail)
  ELSE IF c = 102 THEN (IF HasPrefixAt(t, i, <<102, 97, 108, 115, 101>>) THEN POk(JBool(FALSE), i + 5) ELSE PFail)
  ELSE IF c = 34 THEN ParseChars(t, i + 1)
  ELSE IF c = 91 THEN ArrayFrom(t, SkipWs(t, i + 1))
  ELSE IF c = 123 THEN ObjectFrom(t, SkipWs(t, i + 1))
  ELSE IF c = 45 \/ IsDigit(c) THEN ParseNumber(t, i)
  ELSE PFail

ValueFrom(t, i) == ValueAt(t, i, At(t, i))

ParseValue(t, i0) == ValueFrom(t, SkipWs(t, i0))

WholeText(t, r) == IF r.ok /\ SkipWs(t, r.i) = Len(t) + 1 THEN r ELSE PFail

\* JSON.parse(t): the value, or a failure where JSON.parse throws a
\* SyntaxError (r.ok = FALSE).
JSONParse(t) == WholeText(t, ParseValue(t, 1))

(***************************************************************************)
(* JavaScript value semantics used by the host                             *)
(***************************************************************************)

\* "length"
KeyLength == <<108, 101, 110, 103, 116, 104>>

\* "undefined"
StrUndefined == <<117, 110, 100, 101, 102, 105, 110, 101, 100>>

\* "null"
StrNull == <<110, 117, 108, 108>>

\* "true"
StrTrue == <<116, 114, 117, 101>>

\* "false"
StrFalse == <<102, 97, 108, 115, 101>>

\* "[object Object]"
StrObject == <<91, 111, 98, 106, 101, 99, 116, 32, 79, 98, 106, 101, 99, 116, 93>>

\* "The "file" argument must be of type string. Received "
ErrFileArg ==
  <<84, 104, 101, 32, 34, 102, 105, 108, 101, 34, 32, 97, 114, 103, 117, 109, 101, 110, 116,
    32, 109, 117, 115, 116, 32, 98, 101, 32, 111, 102, 32, 116, 121, 112, 101, 32, 115, 116,
    114, 105, 110, 103, 46, 32, 82, 101, 99, 101, 105, 118, 101, 100, 32>>

\* "spawn "
StrSpawn == <<115, 112, 97, 119, 110, 32>>

\* " ENOENT"
StrENOENT == <<32, 69, 78, 79, 69, 78, 84>>

ObjectPrototypeKeys ==
  { <<99, 111, 110, 115, 116, 114, 117, 99, 116, 111, 114>>,
    <<95, 95, 100, 101, 102, 105, 110, 101, 71, 101, 116, 116, 101, 114, 95, 95>>,
    <<95, 95, 100, 101, 102, 105, 110, 101, 83, 101, 116, 116, 101, 114, 95, 95>>,
    <<104, 97, 115, 79, 119, 110, 80, 114, 111, 112, 101, 114, 116, 121>>,
    <<95, 95, 108, 111, 111, 107, 117, 112, 71, 101, 116, 116, 101, 114, 95, 95>>,
    <<95, 95, 108, 111, 111, 107, 117, 112, 83, 101, 116, 116, 101, 114, 95, 95>>,
    <<105, 115, 80, 114, 111, 116, 111, 116, 121, 112, 101, 79, 102>>,
    <<112, 114, 111, 112, 101, 114, 116, 121, 73, 115, 69, 110, 117, 109, 101, 114, 97, 98, 108, 101>>,
    <<116, 111, 83, 116, 114, 105, 110, 103>>,
    <<118, 97, 108, 117, 101, 79, 102>>,
    <<95, 95, 112, 114, 111, 116, 111, 95, 95>>,
    <<116, 111, 76, 111, 99, 97, 108, 101, 83, 116, 114, 105, 110, 103>> }

\* A function or prototype object reached through the prototype chain.
JNative == [t |-> "native"]

\* !v is FALSE: v is truthy.
Truthy(v) ==
  IF v.t = "undefined" \/ v.t = "null" THEN FALSE
  ELSE IF v.t = "bool" THEN v.b
  ELSE IF v.t = "num" THEN v.n # 0
  ELSE IF v.t = "str" THEN v.s # <<>>
  ELSE TRUE

RECURSIVE ToStr(_)
RECURSIVE JoinElems(_, _)

\* Array.prototype.join(","): null and undefined elements give "".
JoinElems(a, i) ==
  IF i > Len(a) THEN <<>>
  ELSE (IF i > 1 THEN <<44>> ELSE <<>>)
       \o (IF a[i].t \in {"null", "undefined"} THEN <<>> ELSE ToStr(a[i]))
       \o JoinElems(a, i + 1)

\* String(v) (ToString), as a template literal `${v}` and a property key compute it.
ToStr(v) ==
  IF v.t = "undefined" THEN StrUndefined
  ELSE IF v.t = "null" THEN StrNull
  ELSE IF v.t = "bool" THEN (IF v.b THEN StrTrue ELSE StrFalse)
  ELSE IF v.t = "num" THEN (IF v.n < 0 THEN <<45>> \o Digits(0 - v.n) ELSE Digits(v.n))
  ELSE IF v.t = "str" THEN v.s
  ELSE IF v.t = "arr" THEN JoinElems(v.a, 1)
  ELSE StrObject

\* v[k] for a value v other than null and undefined (on those the access
\* throws a TypeError): own properties first, then Object.prototype. The
\* methods of Array.prototype and String.prototype are not keys the model
\* draws.
GetProp(v, k) ==
  IF v.t = "obj" /\ ObjHas(v.o, k) THEN ObjGet(v.o, k)
  ELSE IF v.t = "arr" /\ IsIndexKey(k) /\ DigitsValue(k) < Len(v.a) THEN v.a[DigitsValue(k) + 1]
  ELSE IF v.t = "arr" /\ k = KeyLength THEN JNum(Len(v.a))
  ELSE IF v.t = "str" /\ IsIndexKey(k) /\ DigitsValue(k) < Len(v.s) THEN JStr(<<v.s[DigitsValue(k) + 1]>>)
  ELSE IF v.t = "str" /\ k = KeyLength THEN JNum(Len(v.s))
  ELSE IF k \in ObjectPrototypeKeys THEN JNative
  ELSE JUndefined

\* Property access throws on null and undefined.
Nullish(v) == v.t \in {"null", "undefined"}

(***************************************************************************)
(* Strings of src/agent-bridge-host.js                                     *)
(***************************************************************************)

\* "hostName"
KeyHostName == <<104, 111, 115, 116, 78, 97, 109, 101>>

\* "payload"
KeyPayload == <<112, 97, 121, 108, 111, 97, 100>>

\* "scriptPath"
KeyScriptPath == <<115, 99, 114, 105, 112, 116, 80, 97, 116, 104>>

\* "interpreter"
KeyInterpreter == <<105, 110, 116, 101, 114, 112, 114, 101, 116, 101, 114>>

\* "error"
KeyError == <<101, 114, 114, 111, 114>>

\* "response"
KeyResponse == <<114, 101, 115, 112, 111, 110, 115, 101>>

\* "Failed to parse incoming JSON message."
ErrParse ==
  <<70, 97, 105, 108, 101, 100, 32, 116, 111, 32, 112, 97, 114, 115, 101, 32, 105, 110, 99,
    111, 109, 105, 110, 103, 32, 74, 83, 79, 78, 32, 109, 101, 115, 115, 97, 103, 101, 46>>

\* "Host config file not found or corrupt."
ErrConfig ==
  <<72, 111, 115, 116, 32, 99, 111, 110, 102, 105, 103, 32, 102, 105, 108, 101, 32, 110, 111,
    116, 32, 102, 111, 117, 110, 100, 32, 111, 114, 32, 99, 111, 114, 114, 117, 112, 116, 46>>

\* "Invalid message format. 'hostName' and 'payload' are required."
ErrInvalidFormat ==
  <<73, 110, 118, 97, 108, 105, 100, 32, 109, 101, 115, 115, 97, 103, 101, 32, 102, 111, 114,
    109, 97, 116, 46, 32, 39, 104, 111, 115, 116, 78, 97, 109, 101, 39, 32, 97, 110, 100, 32,
    39, 112, 97, 121, 108, 111, 97, 100, 39, 32, 97, 114, 101, 32, 114, 101, 113, 117, 105,
    114, 101, 100, 46>>

\* "No host registered with name: "
ErrNoHost ==
  <<78, 111, 32, 104, 111, 115, 116, 32, 114, 101, 103, 105, 115, 116, 101, 114, 101, 100, 32,
    119, 105, 116, 104, 32, 110, 97, 109, 101, 58, 32>>

\* "Script path not found for host "
ErrScriptPath ==
  <<83, 99, 114, 105, 112, 116, 32, 112, 97, 116, 104, 32, 110, 111, 116, 32, 102, 111, 117,
    110, 100, 32, 102, 111, 114, 32, 104, 111, 115, 116, 32>>

\* ": "
ColonSpace == <<58, 32>>

\* "Failed to spawn "
ErrSpawn == <<70, 97, 105, 108, 101, 100, 32, 116, 111, 32, 115, 112, 97, 119, 110, 32>>

\* "Script execution failed: "
ErrExecution ==
  <<83, 99, 114, 105, 112, 116, 32, 101, 120, 101, 99, 117, 116, 105, 111, 110, 32, 102, 97,
    105, 108, 101, 100, 58, 32>>

\* "Failed to start script: "
ErrStart ==
  <<70, 97, 105, 108, 101, 100, 32, 116, 111, 32, 115, 116, 97, 114, 116, 32, 115, 99, 114,
    105, 112, 116, 58, 32>>

(***************************************************************************)
(* Bounds and the environment's catalogue                                  *)
(***************************************************************************)

\* Frames (or raw byte runs) the browser writes in one run.
MaxFrames == 2

\* 'data' events one child emits on its stdout and stderr together.
MaxChunks == 1

\* The same with profile "output".
MaxOutputChunks == 2

\* A stdin 'data' event carries up to this many bytes, or all that is
\* pending in the pipe.
MaxChunkLen == 4

\* Files that exist on disk, and the programs spawn can start.
ExistingFiles == { <<47, 115>> }
Executables == { <<47, 115>>, <<112>> }

\* The host directory the management application keeps: host "a" runs
\* /s under interpreter p, "g" names an interpreter that is not installed,
\* "m" a script that is not on disk, "t" an interpreter that is no string.
HostA == JObj(<< <<KeyScriptPath, JStr(<<47, 115>>)>>, <<KeyInterpreter, JStr(<<112>>)>> >>)
HostG == JObj(<< <<KeyScriptPath, JStr(<<47, 115>>)>>, <<KeyInterpreter, JStr(<<113>>)>> >>)
HostM == JObj(<< <<KeyScriptPath, JStr(<<47, 120>>)>> >>)
HostT == JObj(<< <<KeyScriptPath, JStr(<<47, 115>>)>>, <<KeyInterpreter, JNum(1)>> >>)
Directory ==
  JObj(<< <<<<97>>, HostA>>, <<<<103>>, HostG>>, <<<<109>>, HostM>>, <<<<116>>, HostT>> >>)

\* The directory after an edit: hosts "g", "m" and "t" are removed and "a"
\* runs /s without an interpreter.
HostA2 == JObj(<< <<KeyScriptPath, JStr(<<47, 115>>)>> >>)
Directory2 == JObj(<< <<<<97>>, HostA2>> >>)

\* The config file: absent, or the JSON text of a directory. rev names
\* the revision of the file.
NoConfigFile == [present |-> FALSE, text |-> <<>>, rev |-> "none"]
ConfigFiles ==
  { NoConfigFile,
    [present |-> TRUE, text |-> Stringify(Directory), rev |-> "first"],
    [present |-> TRUE, text |-> Stringify(Directory2), rev |-> "second"] }

Envelope(hostName, payload) ==
  JObj(<< <<KeyHostName, JStr(hostName)>>, <<KeyPayload, payload>> >>)

\* The JSON texts the browser frames: requests to hosts a, g, t, m, to
\* the unregistered host "é" and to "valueOf", which is no host of the
\* directory either, an envelope without hostName, the text null and a
\* text that is no JSON.
RequestTexts ==
  { Stringify(Envelope(<<97>>, JNum(1))),
    Stringify(Envelope(<<103>>, JNum(1))),
    Stringify(Envelope(<<116>>, JNum(1))),
    Stringify(Envelope(<<109>>, JNum(1))),
    Stringify(Envelope(<<233>>, JNum(1))),
    Stringify(Envelope(<<118, 97, 108, 117, 101, 79, 102>>, JNum(1))),
    Stringify(JObj(<< <<KeyPayload, JObj(<<>>)>> >>)),
    Stringify(JNull),
    <<120>> }

\* Byte runs written outside any frame: a header that announces one byte.
RawItems == { <<1, 0, 0, 0>> }

\* What a child writes in one 'data' event: {"ok":1}, hi, boom.
StdoutChunks == { <<123, 34, 111, 107, 34, 58, 49, 125>>, <<104, 105>> }
StderrChunks == { <<98, 111, 111, 109>> }

\* The requests of profile "output": to host a and to host g.
OutputRequestTexts ==
  { Stringify(Envelope(<<97>>, JNum(1))), Stringify(Envelope(<<103>>, JNum(1))) }

\* The payloads of profile "payload": false, 0, the empty string, null and
\* the object {"hostName":"g"}.
Payloads ==
  { JBool(FALSE), JNum(0), JStr(<<>>), JNull, JObj(<< <<KeyHostName, JStr(<<103>>)>> >>) }

\* The requests of profile "payload": to host a with each of the
\* payloads, and to host g.
PayloadRequestTexts ==
  { Stringify(Envelope(<<97>>, payload)) : payload \in Payloads }
    \cup { Stringify(Envelope(<<103>>, JNum(1))) }

\* The bytes 22 C3 A9 22, the JSON text of the string U+00E9, as two
\* 'data' events that part inside the character.
SplitChunks == { <<34, 195>>, <<169, 34>> }

\* Exit statuses of a child that ran.
ExitCodes == { 0, 2 }

(***************************************************************************)
(* Frame codec                                                             *)
(***************************************************************************)

\* header.writeUInt32LE(n, 0)
WriteUInt32LE(n) ==
  <<n % 256, (n \div 256) % 256, (n \div 65536) % 256, (n \div 16777216) % 256>>

\* inputBuffer.readUInt32LE(0)
ReadUInt32LE(buf) == buf[1] + 256 * buf[2] + 65536 * buf[3] + 16777216 * buf[4]

\* A text as the browser frames it for the host: the length of its UTF-8
\* encoding in 4 bytes, little-endian, then the encoding, which is what
\* processMessages reads.
BrowserFrame(text) == WriteUInt32LE(Len(Utf8Encode(text))) \o Utf8Encode(text)

\* EncodeFrame with the header carrying jsonMessage.length, the number of
\* UTF-16 units, in place of the number of bytes.
EncodeFrameCharLength(jsonMessage) ==
  WriteUInt32LE(Len(jsonMessage)) \o Utf8Encode(jsonMessage)

\* The two writes of sendMessage: the header carrying
\* Buffer.byteLength(jsonMessage), then the message as UTF-8.
EncodeFrame(jsonMessage) ==
  WriteUInt32LE(Len(Utf8Encode(jsonMessage))) \o Utf8Encode(jsonMessage)

\* TryDecodeOne without the test of line 74: with the header buffered, the
\* frame is cut from whatever has arrived.
TryDecodeOneEager(buf) ==
  IF Len(buf) < 4 THEN [complete |-> FALSE, content |-> <<>>, rest |-> buf]
  ELSE [complete |-> TRUE,
        content |-> Utf8Decode(SubSeq(buf, 5,
                      IF 4 + ReadUInt32LE(buf) < Len(buf) THEN 4 + ReadUInt32LE(buf) ELSE Len(buf))),
        rest |-> SubSeq(buf,
                   (IF 4 + ReadUInt32LE(buf) < Len(buf) THEN 4 + ReadUInt32LE(buf) ELSE Len(buf)) + 1,
                   Len(buf))]

\* One pass of the loop of processMessages over buffer buf: whether a
\* whole frame is buffered, its content, and the buffer after consuming it.
TryDecodeOne(buf) ==
  IF Len(buf) < 4 THEN [complete |-> FALSE, content |-> <<>>, rest |-> buf]
  ELSE LET messageLength == ReadUInt32LE(buf)
           messageEnd == 4 + messageLength
       IN  IF Len(buf) >= messageEnd
           THEN [complete |-> TRUE,
                 content |-> Utf8Decode(SubSeq(buf, 5, messageEnd)),
                 rest |-> SubSeq(buf, messageEnd + 1, Len(buf))]
           ELSE [complete |-> FALSE, content |-> <<>>, rest |-> buf]

(***************************************************************************)
(* State                                                                   *)
(***************************************************************************)

VARIABLES
  wire,         \* bytes the browser wrote to the host's stdin, not yet delivered
  written,      \* how many items the browser wrote
  rawAt,        \* the stream offsets at which the browser wrote a raw byte run
  received,     \* every byte delivered to the 'data' handler so far
  inputBuffer,  \* let inputBuffer (line 58)
  config,       \* let config (line 27)
  configFile,   \* the file at CONFIG_PATH
  consumed,     \* how many bytes were taken off the buffer so far
  requests,     \* one record per frame taken off the buffer, in that order
  stdout,       \* every byte written to process.stdout
  replies,      \* one record per sendMessage call that wrote a frame
  profile       \* what the host's surroundings do: "stream" or "output"

\* The machine the management application registers hosts on.
VARIABLES
  platform,       \* process.platform
  appBound,       \* whether the identifier app is bound in native-host-registry
  files,          \* the manifest files on disk: records [path, content]
  registry,       \* the keys under NativeMessagingHosts: records [key, value]
  log,            \* the last two calls of the registry module, oldest first
  everInstalled,  \* the host names installHost has returned for
  store,          \* the hosts of the management application's store
  ipc             \* the last call of an IPC handler and what it returned

registration == <<platform, appBound, files, registry, log, everInstalled, store, ipc>>

vars ==
  <<wire, written, rawAt, received, inputBuffer, consumed, config, configFile, requests, stdout,
    replies, profile, registration>>

\* The child of a request: the closure variables of handleMessage (output,
\* errorOutput, scriptPath), what the host wrote to the child's stdin, and
\* where the child process is:
\*   "none"      no child was spawned
\*   "running"   the process runs
\*   "spawnfail" spawn returned, the process could not start and its
\*               'error' event is due
\*   "errored"   'error' was emitted, 'close' is due
\*   "closed"    'close' was emitted, with exitCode its code
\* stdoutBytes and stderrBytes are the bytes the process wrote to the two
\* streams so far.
NoChild ==
  [state |-> "none", file |-> <<>>, scriptPath |-> JUndefined, output |-> <<>>,
   errorOutput |-> <<>>, stdin |-> <<>>, stdinEnded |-> FALSE, chunks |-> 0, exitCode |-> 0,
   stdoutBytes |-> <<>>, stderrBytes |-> <<>>]

\* The host's own state, threaded through the handlers.
Broker(buf, taken, cfg, reqs, out, reps) ==
  [inputBuffer |-> buf, consumed |-> taken, config |-> cfg, requests |-> reqs, stdout |-> out,
   replies |-> reps]

(***************************************************************************)
(* sendMessage                                                             *)
(***************************************************************************)

\* sendMessage with its two writes in the other order: the message, then
\* the header.
sendMessageBodyFirst(b, id, message) ==
  IF message = JUndefined THEN b
  ELSE [b EXCEPT !.stdout = @ \o Utf8Encode(Stringify(message))
                               \o WriteUInt32LE(Len(Utf8Encode(Stringify(message)))),
                 !.replies = Append(@, [req |-> id, msg |-> message, at |-> Len(b.stdout)])]

\* sendMessage(message), called while request id is handled. A message
\* JSON.stringify cannot serialize (undefined) makes Buffer.byteLength
\* throw; the catch logs and nothing is written.
sendMessage(b, id, message) ==
  IF message = JUndefined THEN b
  ELSE [b EXCEPT !.stdout = @ \o EncodeFrame(Stringify(message)),
                 !.replies = Append(@, [req |-> id, msg |-> message, at |-> Len(b.stdout)])]

ErrorMessage(text) == JObj(<< <<KeyError, JStr(text)>> >>)

(***************************************************************************)
(* handleMessage                                                           *)
(***************************************************************************)

\* fs.existsSync(scriptPath): FALSE for anything that is no path string.
ExistsSync(scriptPath) == scriptPath.t = "str" /\ scriptPath.s \in ExistingFiles

\* The text after "Received " in the TypeError spawn throws for a file
\* argument that is no string.
ReceivedDesc(v) ==
  IF v.t = "num" THEN <<116, 121, 112, 101, 32, 110, 117, 109, 98, 101, 114, 32, 40>> \o ToStr(v) \o <<41>>
  ELSE IF v.t = "bool" THEN <<116, 121, 112, 101, 32, 98, 111, 111, 108, 101, 97, 110, 32, 40>> \o ToStr(v) \o <<41>>
  ELSE IF v.t = "arr" THEN <<97, 110, 32, 105, 110, 115, 116, 97, 110, 99, 101, 32, 111, 102, 32, 65, 114, 114, 97, 121>>
  ELSE <<97, 110, 32, 105, 110, 115, 116, 97, 110, 99, 101, 32, 111, 102, 32, 79, 98, 106, 101, 99, 116>>

SetKind(b, id, kind) == [b EXCEPT !.requests[id].kind = kind]

\* SpawnChild writing the whole envelope to the child's stdin.
SpawnChildEnvelope(b, id, hostName, payload, scriptPath, interpreter) ==
  LET file == IF Truthy(interpreter) THEN interpreter ELSE scriptPath IN
  IF file.t # "str"
  THEN SetKind(sendMessage(b, id,
                 ErrorMessage(ErrSpawn \o ToStr(file) \o ColonSpace
                              \o ErrFileArg \o ReceivedDesc(file))),
               id, "SpawnFailed")
  ELSE [b EXCEPT !.requests[id].kind = "Spawned",
                 !.requests[id].child =
                   [state |-> IF file.s \in Executables THEN "running" ELSE "spawnfail",
                    file |-> file.s,
                    scriptPath |-> scriptPath,
                    output |-> <<>>,
                    errorOutput |-> <<>>,
                    stdin |-> Utf8Encode(Stringify(Envelope(hostName.s, payload))),
                    stdinEnded |-> TRUE,
                    chunks |-> 0,
                    exitCode |-> 0, stdoutBytes |-> <<>>, stderrBytes |-> <<>>]]

\* Lines 130-186: spawn, the registration of the handlers, and the write
\* of the payload to the child's stdin. file is interpreter || scriptPath.
SpawnChild(b, id, hostName, payload, scriptPath, interpreter) ==
  LET file == IF Truthy(interpreter) THEN interpreter ELSE scriptPath IN
  IF file.t # "str"
  THEN SetKind(sendMessage(b, id,
                 ErrorMessage(ErrSpawn \o ToStr(file) \o ColonSpace
                              \o ErrFileArg \o ReceivedDesc(file))),
               id, "SpawnFailed")
  ELSE [b EXCEPT !.requests[id].kind = "Spawned",
                 !.requests[id].child =
                   [state |-> IF file.s \in Executables THEN "running" ELSE "spawnfail",
                    file |-> file.s,
                    scriptPath |-> scriptPath,
                    output |-> <<>>,
                    errorOutput |-> <<>>,
                    stdin |-> Utf8Encode(Stringify(payload)),
                    stdinEnded |-> TRUE,
                    chunks |-> 0,
                    exitCode |-> 0, stdoutBytes |-> <<>>, stderrBytes |-> <<>>]]

\* Lines 123-142: the test of the script path, then spawn.
CheckScript(b, id, hostName, payload, scriptPath, interpreter) ==
  IF ~ExistsSync(scriptPath)
  THEN [threw |-> FALSE,
        b |-> SetKind(sendMessage(b, id,
                        ErrorMessage(ErrScriptPath \o ToStr(hostName) \o ColonSpace
                                     \o ToStr(scriptPath))),
                      id, "ScriptMissing")]
  ELSE [threw |-> FALSE, b |-> SpawnChild(b, id, hostName, payload, scriptPath, interpreter)]

\* Lines 114-121, with hostConfig what config[hostName] gave.
LookUp(b, id, hostName, payload, hostConfig) ==
  IF ~Truthy(hostConfig)
  THEN [threw |-> FALSE,
        b |-> SetKind(sendMessage(b, id, ErrorMessage(ErrNoHost \o ToStr(hostName))),
                      id, "HostNotFound")]
  ELSE CheckScript(b, id, hostName, payload,
                   GetProp(hostConfig, KeyScriptPath), GetProp(hostConfig, KeyInterpreter))

\* CheckEnvelope with the test of line 105 reduced to !payload.
CheckEnvelopePayloadOnly(b, id, hostName, payload) ==
  IF ~Truthy(payload)
  THEN [threw |-> FALSE,
        b |-> SetKind(sendMessage(b, id, ErrorMessage(ErrInvalidFormat)), id, "MalformedEnvelope")]
  ELSE IF Nullish(b.config) THEN [threw |-> TRUE, b |-> b]
  ELSE LookUp(b, id, hostName, payload, GetProp(b.config, ToStr(hostName)))

\* Lines 105-112, with hostName and payload what the destructuring of the
\* message gave. config[hostName] throws a TypeError on a config that is
\* null.
CheckEnvelope(b, id, hostName, payload) ==
  IF ~Truthy(hostName) \/ ~Truthy(payload)
  THEN [threw |-> FALSE,
        b |-> SetKind(sendMessage(b, id, ErrorMessage(ErrInvalidFormat)), id, "MalformedEnvelope")]
  ELSE IF Nullish(b.config) THEN [threw |-> TRUE, b |-> b]
  ELSE LookUp(b, id, hostName, payload, GetProp(b.config, ToStr(hostName)))

\* Lines 103-128: the checks on the envelope, the directory and the script
\* path, with config already loaded. threw: a TypeError left handleMessage.
Resolve(b, id, message) ==
  IF Nullish(message) THEN [threw |-> TRUE, b |-> b]
  ELSE CheckEnvelope(b, id, GetProp(message, KeyHostName), GetProp(message, KeyPayload))

\* JSON.parse of the text of each config file, computed once.
ParsedConfigFile == [f \in ConfigFiles |-> JSONParse(f.text)]

\* JSON.parse(fs.readFileSync(CONFIG_PATH, 'utf-8')): a failure when the
\* file is absent or its text is no JSON.
LoadConfig(file) == IF file.present THEN ParsedConfigFile[file] ELSE PFail

\* Lines 94-101, with loaded the outcome of loading the config file.
WithConfig(b, id, message, loaded) ==
  IF ~loaded.ok
  THEN [threw |-> FALSE,
        b |-> SetKind(sendMessage(b, id, ErrorMessage(ErrConfig)), id, "ConfigUnavailable")]
  ELSE Resolve([b EXCEPT !.config = loaded.v], id, message)

\* handleMessage reading the config file only while the module's config
\* is still the empty object it starts as, and using config afterwards.
handleMessageCached(b, id, message, file) ==
  WithConfig(b, id, message,
             IF b.config = JObj(<<>>) THEN LoadConfig(file) ELSE [ok |-> TRUE, v |-> b.config])

\* handleMessage(message) for request id, with file the config file as it
\* is on disk now.
handleMessage(b, id, message, file) == WithConfig(b, id, message, LoadConfig(file))

(***************************************************************************)
(* processMessages                                                         *)
(***************************************************************************)

\* The catch of lines 82-85 doing what the catch of lines 63-67 does as
\* well: the buffer is cleared.
CaughtClearing(handled, id) ==
  IF handled.threw
  THEN [SetKind(sendMessage(handled.b, id, ErrorMessage(ErrParse)), id, "ParseError")
          EXCEPT !.inputBuffer = <<>>]
  ELSE handled.b

\* The catch of lines 82-85: whatever JSON.parse or handleMessage threw
\* is answered with the parse error.
Caught(handled, id) ==
  IF handled.threw
  THEN SetKind(sendMessage(handled.b, id, ErrorMessage(ErrParse)), id, "ParseError")
  ELSE handled.b

\* The try of lines 79-81, with parsed the outcome of JSON.parse.
Tried(b, id, parsed, file) ==
  IF parsed.ok THEN handleMessage(b, id, parsed.v, file) ELSE [threw |-> TRUE, b |-> b]

\* The body of the loop for one extracted frame: lines 79-85.
Dispatch(b, id, messageContent, file) ==
  Caught(Tried(b, id, JSONParse(messageContent), file), id)

RECURSIVE processMessages(_, _)

\* The try/catch of lines 79-85 for the frame of this content, which
\* becomes the next request; the request records where in the stream the
\* frame began, how many bytes were taken for it and which revision of
\* the config file was on disk.
DispatchTaken(r, start, size, content, file) ==
  Dispatch([r EXCEPT !.requests = Append(@, [content |-> content,
                                             start |-> start,
                                             size |-> size,
                                             rev |-> file.rev,
                                             kind |-> "Taken",
                                             child |-> NoChild])],
           Len(r.requests) + 1, content, file)

\* Consume handing the frame to the handler only after the rest of the
\* buffer was processed.
ConsumeRestFirst(b, d, file) ==
  IF ~d.complete THEN b
  ELSE DispatchTaken(
         processMessages([b EXCEPT !.inputBuffer = d.rest,
                                   !.consumed = @ + (Len(b.inputBuffer) - Len(d.rest))],
                         file),
         b.consumed, Len(b.inputBuffer) - Len(d.rest), d.content, file)

\* Consume waiting while the child of an earlier request runs.
ConsumeSerialized(b, d, file) ==
  IF ~d.complete \/ \E i \in 1..Len(b.requests) : b.requests[i].child.state = "running"
  THEN b
  ELSE processMessages(
         DispatchTaken([b EXCEPT !.inputBuffer = d.rest,
                                 !.consumed = @ + (Len(b.inputBuffer) - Len(d.rest))],
                       b.consumed, Len(b.inputBuffer) - Len(d.rest), d.content, file),
         file)

\* Consume without the loop: one frame is taken per 'data' event.
ConsumeOnce(b, d, file) ==
  IF ~d.complete THEN b
  ELSE DispatchTaken([b EXCEPT !.inputBuffer = d.rest,
                               !.consumed = @ + (Len(b.inputBuffer) - Len(d.rest))],
                     b.consumed, Len(b.inputBuffer) - Len(d.rest), d.content, file)

\* One turn of the while loop, with d what TryDecodeOne found: the frame
\* is taken off the buffer (line 77) and handled, and the loop goes on.
Consume(b, d, file) ==
  IF ~d.complete THEN b
  ELSE processMessages(
         DispatchTaken([b EXCEPT !.inputBuffer = d.rest,
                                 !.consumed = @ + (Len(b.inputBuffer) - Len(d.rest))],
                       b.consumed, Len(b.inputBuffer) - Len(d.rest), d.content, file),
         file)

processMessages(b, file) == Consume(b, TryDecodeOne(b.inputBuffer), file)

\* The 'data' handler with inputBuffer = chunk in place of the Buffer.concat
\* of line 60.
OnStdinDataOverwrite(b, chunk, file) == processMessages([b EXCEPT !.inputBuffer = chunk], file)

\* process.stdin.on('data', (chunk) => ...): lines 59-68. Nothing in
\* processMessages throws on the buffers of the model, so the catch that
\* clears the buffer is not entered.
OnStdinData(b, chunk, file) == processMessages([b EXCEPT !.inputBuffer = @ \o chunk], file)

(***************************************************************************)
(* Child event handlers                                                    *)
(***************************************************************************)

\* child.stdout.on('data'): output += data.toString()
OnStdoutData(c, data) ==
  [c EXCEPT !.output = @ \o Utf8Decode(data), !.chunks = @ + 1, !.stdoutBytes = @ \o data]

\* child.stderr.on('data'): errorOutput += data.toString()
OnStderrData(c, data) ==
  [c EXCEPT !.errorOutput = @ \o Utf8Decode(data), !.chunks = @ + 1, !.stderrBytes = @ \o data]

\* CloseMessage without the test of the exit code of line 158.
CloseMessageIgnoringCode(c, code, response) ==
  IF response.ok THEN response.v
  ELSE JObj(<< <<KeyResponse, JStr(c.output)>> >>)

\* The message the close handler sends (lines 158-171), with response the
\* outcome of JSON.parse(output).
CloseMessage(c, code, response) ==
  IF code # 0 THEN ErrorMessage(ErrExecution \o c.errorOutput)
  ELSE IF response.ok THEN response.v
  ELSE JObj(<< <<KeyResponse, JStr(c.output)>> >>)

RECURSIVE OutputOfAll(_, _)
\* What all children from request i on wrote to their stdout.
OutputOfAll(reqs, i) ==
  IF i > Len(reqs) THEN <<>> ELSE reqs[i].child.output \o OutputOfAll(reqs, i + 1)

\* The child of request id, had output been one variable of the module.
SharedChild(b, id) == [b.requests[id].child EXCEPT !.output = OutputOfAll(b.requests, 1)]

\* The close handler reading an output variable shared by all requests.
OnCloseShared(b, id, code) ==
  sendMessage(b, id, CloseMessage(SharedChild(b, id), code, JSONParse(SharedChild(b, id).output)))

\* child.on('close', (code) => ...) of request id: lines 157-172.
OnClose(b, id, code) ==
  sendMessage(b, id,
    CloseMessage(b.requests[id].child, code, JSONParse(b.requests[id].child.output)))

\* child.on('error', (err) => ...) of request id: lines 174-177, with
\* err.message "spawn <file> ENOENT".
OnError(b, id) ==
  sendMessage(b, id,
    ErrorMessage(ErrStart \o StrSpawn \o b.requests[id].child.file \o StrENOENT))

(***************************************************************************)
(* Actions                                                                 *)
(***************************************************************************)

\* The host's state as the variables hold it.
Here == Broker(inputBuffer, consumed, config, requests, stdout, replies)

\* The host's state after a handler ran.
Becomes(b) ==
  /\ inputBuffer' = b.inputBuffer
  /\ consumed' = b.consumed
  /\ config' = b.config
  /\ requests' = b.requests
  /\ stdout' = b.stdout
  /\ replies' = b.replies

\* The process of request id moved to state st.
ChildIn(b, id, st) == [b EXCEPT !.requests[id].child.state = st]

\* The process of request id has emitted 'close' with this code.
ChildClosed(b, id, code) ==
  [b EXCEPT !.requests[id].child.state = "closed", !.requests[id].child.exitCode = code]

\* Nothing is registered, and no call of the registry module was made.
NoRegistration ==
  /\ platform = "linux"
  /\ appBound = TRUE
  /\ files = {}
  /\ registry = {}
  /\ log = <<>>
  /\ everInstalled = {}
  /\ store = {}
  /\ ipc = [channel |-> "none"]

Init ==
  /\ wire = <<>>
  /\ written = 0
  /\ rawAt = {}
  /\ received = <<>>
  /\ inputBuffer = <<>>
  /\ consumed = 0
  /\ config = JObj(<<>>)
  /\ configFile \in ConfigFiles
  /\ requests = <<>>
  /\ stdout = <<>>
  /\ replies = <<>>
  /\ profile = "stream"
  /\ NoRegistration

\* What the browser writes in one piece, what a child writes in one 'data'
\* event of either stream, and how many such events a child has. With
\* profile "stream" the browser writes every text and raw run of the
\* catalogue and a child has MaxChunks events; with profile "output" the
\* browser asks for hosts a and g only and a child has MaxOutputChunks
\* events, each one half of the bytes of "\u00e9" (with its quotes).
\* With profile "payload" the browser asks for host a with each payload
\* of the catalogue, and for host g; everything else is as with "stream".
Items ==
  IF profile = "stream" THEN {BrowserFrame(t) : t \in RequestTexts} \cup RawItems
  ELSE IF profile = "payload" THEN {BrowserFrame(t) : t \in PayloadRequestTexts}
  ELSE {BrowserFrame(t) : t \in OutputRequestTexts}

StdoutData == IF profile = "output" THEN SplitChunks ELSE StdoutChunks

StderrData == IF profile = "output" THEN SplitChunks ELSE StderrChunks

ChunkLimit == IF profile = "output" THEN MaxOutputChunks ELSE MaxChunks

\* The browser writes one framed text, or a raw byte run, to the pipe.
BrowserWrite ==
  /\ written < MaxFrames
  /\ \E item \in Items :
       /\ wire' = wire \o item
       /\ rawAt' = IF item \in RawItems THEN rawAt \cup {Len(received) + Len(wire)} ELSE rawAt
  /\ written' = written + 1
  /\ UNCHANGED <<registration, profile, received, inputBuffer, consumed, config, configFile, requests, stdout, replies>>

\* process.stdin emits 'data' with the first k bytes of the pipe.
StdinData ==
  \E k \in {n \in 1..Len(wire) : n <= MaxChunkLen \/ n = Len(wire)} :
    /\ wire' = SubSeq(wire, k + 1, Len(wire))
    /\ received' = received \o SubSeq(wire, 1, k)
    /\ Becomes(OnStdinData(Here, SubSeq(wire, 1, k), configFile))
    /\ UNCHANGED <<registration, profile, written, rawAt, configFile>>

\* A running child writes to its stdout.
ChildStdout ==
  \E id \in 1..Len(requests), data \in StdoutData :
    /\ requests[id].child.state = "running"
    /\ requests[id].child.chunks < ChunkLimit
    /\ requests' = [requests EXCEPT ![id].child = OnStdoutData(@, data)]
    /\ UNCHANGED <<registration, profile, wire, written, rawAt, received, inputBuffer, consumed, config, configFile, stdout,
                   replies>>

\* A running child writes to its stderr.
ChildStderr ==
  \E id \in 1..Len(requests), data \in StderrData :
    /\ requests[id].child.state = "running"
    /\ requests[id].child.chunks < ChunkLimit
    /\ requests' = [requests EXCEPT ![id].child = OnStderrData(@, data)]
    /\ UNCHANGED <<registration, profile, wire, written, rawAt, received, inputBuffer, consumed, config, configFile, stdout,
                   replies>>

\* A running child exits and its streams close: 'close' with its status.
ChildExit ==
  \E id \in 1..Len(requests), code \in ExitCodes :
    /\ requests[id].child.state = "running"
    /\ Becomes(ChildClosed(OnClose(Here, id, code), id, code))
    /\ UNCHANGED <<registration, profile, wire, written, rawAt, received, configFile>>

\* A child that could not be started emits 'error'.
ChildError ==
  \E id \in 1..Len(requests) :
    /\ requests[id].child.state = "spawnfail"
    /\ Becomes(ChildIn(OnError(Here, id), id, "errored"))
    /\ UNCHANGED <<registration, profile, wire, written, rawAt, received, configFile>>

\* After 'error', a child that could not be started emits 'close' with
\* the negative errno as its code (-2, ENOENT).
ChildCloseAfterError ==
  \E id \in 1..Len(requests) :
    /\ requests[id].child.state = "errored"
    /\ Becomes(ChildClosed(OnClose(Here, id, 0 - 2), id, 0 - 2))
    /\ UNCHANGED <<registration, profile, wire, written, rawAt, received, configFile>>

\* The management application rewrites, or removes, the config file.
WriteConfig ==
  /\ \E f \in ConfigFiles \ {configFile} : configFile' = f
  /\ UNCHANGED <<registration, profile, wire, written, rawAt, received, inputBuffer, consumed, config, requests, stdout,
                 replies>>

Next ==
  \/ BrowserWrite
  \/ StdinData
  \/ ChildStdout
  \/ ChildStderr
  \/ ChildExit
  \/ ChildError
  \/ ChildCloseAfterError
  \/ WriteConfig

Spec == Init /\ [][Next]_vars

\* The same host with the surroundings of profile "output".
InitOutput ==
  /\ wire = <<>>
  /\ written = 0
  /\ rawAt = {}
  /\ received = <<>>
  /\ inputBuffer = <<>>
  /\ consumed = 0
  /\ config = JObj(<<>>)
  /\ configFile \in ConfigFiles
  /\ requests = <<>>
  /\ stdout = <<>>
  /\ replies = <<>>
  /\ profile = "output"
  /\ NoRegistration

OutputSpec == InitOutput /\ [][Next]_vars

\* The same host with the surroundings of profile "payload".
InitPayload ==
  /\ wire = <<>>
  /\ written = 0
  /\ rawAt = {}
  /\ received = <<>>
  /\ inputBuffer = <<>>
  /\ consumed = 0
  /\ config = JObj(<<>>)
  /\ configFile \in ConfigFiles
  /\ requests = <<>>
  /\ stdout = <<>>
  /\ replies = <<>>
  /\ profile = "payload"
  /\ NoRegistration

PayloadSpec == InitPayload /\ [][Next]_vars

(***************************************************************************)
(* Registration of hosts with the browser: native-host-registry            *)
(***************************************************************************)

Platforms == { "win32", "darwin", "linux" }

\* The hosts the management application registers and the scripts it names
\* in their definitions.
HostNames == { "com.a", "com.b" }
ScriptPaths == { "/opt/one.js", "/opt/two.js" }

\* interface HostDefinition
Definition(hostName, scriptPath) ==
  [hostName |-> hostName, description |-> "d", scriptPath |-> scriptPath,
   allowedOrigins |-> <<"o">>]

\* What can go wrong in a call of installHost: nothing, the first call of
\* fs rejects, or regKey.create reports an error.
Faults == { "none", "fs", "registry" }

\* The message of the error regKey.destroy reports for a key that is not
\* there, as a sequence of words: winreg passes on what reg.exe printed,
\* "ERROR: The system was unable to find the specified registry key or
\* value." in English, other words in other versions and languages.
DestroyMessages ==
  { <<"ERROR:", "The", "system", "was", "unable", "to", "find", "the", "specified", "registry",
      "key", "or", "value.">>,
    <<"ERROR:", "The", "key", "or", "value", "does", "not", "exist">> }

\* 'key or value does not exist'
KeyGonePhrase == <<"key", "or", "value", "does", "not", "exist">>

\* message.includes(phrase)
Includes(message, phrase) ==
  \E i \in 1..Len(message) :
    /\ i + Len(phrase) - 1 <= Len(message)
    /\ SubSeq(message, i, i + Len(phrase) - 1) = phrase

\* getChromeNativeMessagingPath()
getChromeNativeMessagingPath(p) ==
  CASE p = "win32" -> "HKEY_CURRENT_USER\\SOFTWARE\\Google\\Chrome\\NativeMessagingHosts"
    [] p = "darwin" -> "~/Library/Application Support/Google/Chrome/NativeMessagingHosts"
    [] p = "linux" -> "~/.config/google-chrome/NativeMessagingHosts"

\* getNativeHostManifestPath(hostName): the registry key on win32, the
\* .json file in Chrome's directory elsewhere.
getNativeHostManifestPath(p, hostName) ==
  IF p = "win32" THEN [dir |-> getChromeNativeMessagingPath(p), name |-> hostName]
  ELSE [dir |-> getChromeNativeMessagingPath(p), name |-> hostName \o ".json"]

\* winManifestPath of installHost: <userData>/NativeMessagingHosts/<hostName>.json
WinManifestPath(hostName) ==
  [dir |-> "userData/NativeMessagingHosts", name |-> hostName \o ".json"]

\* const manifest of writeNativeHostManifest
Manifest(definition) ==
  [name |-> definition.hostName,
   description |-> definition.description,
   path |-> definition.scriptPath,
   type |-> "stdio",
   allowed_origins |-> [i \in DOMAIN definition.allowedOrigins |->
                          "chrome-extension://" \o definition.allowedOrigins[i] \o "/"]]

\* fs.writeFile(path, content): the file is created, or replaced.
writeFile(fs, path, content) ==
  {f \in fs : f.path # path} \cup {[path |-> path, content |-> content]}

\* The outcome of a call on machine m, the files and the registry: it
\* threw an error with a message, a sequence of pieces of text, or it
\* returned a value.
Threw(m, message) == [m |-> m, threw |-> TRUE, returned |-> "undefined", message |-> message]
Returned(m, value) == [m |-> m, threw |-> FALSE, returned |-> value, message |-> <<>>]

\* writeNativeHostManifest(definition, manifestPath): the file is written
\* where the platform is not win32.
writeNativeHostManifest(m, p, definition, manifestPath) ==
  IF p # "win32"
  THEN [m EXCEPT !.files = writeFile(@, manifestPath, Manifest(definition))]
  ELSE m

\* registerRegistry(hostName, manifestPath): the key is created if it is
\* not there and its default value is set.
registerRegistry(m, hostName, manifestPath, fault) ==
  IF fault = "registry" THEN Threw(m, <<"Failed to create registry key: ", "Access is denied.">>)
  ELSE Returned([m EXCEPT !.registry = {k \in @ : k.key # hostName}
                                         \cup {[key |-> hostName, value |-> manifestPath]}],
                "undefined")

\* unregisterRegistry(hostName): the key is destroyed; for a key that is
\* not there destroy reports an error, which is passed over when its
\* message includes the phrase.
unregisterRegistry(m, hostName, message) ==
  IF \E k \in m.registry : k.key = hostName
  THEN Returned([m EXCEPT !.registry = {k \in @ : k.key # hostName}], "undefined")
  ELSE IF Includes(message, KeyGonePhrase) THEN Returned(m, "undefined")
  ELSE Threw(m, <<"Failed to destroy registry key: ">> \o message)

\* installHost on the result registered of registerRegistry.
InstalledRegistry(registered, manifestPath) ==
  IF registered.threw THEN registered ELSE Returned(registered.m, manifestPath)

\* installHost(definition). On win32 app.getPath is evaluated first, and
\* app is no import of the module: with the identifier unbound the call
\* throws there.
installHost(m, p, bound, definition, fault) ==
  IF p = "win32"
  THEN IF ~bound THEN Threw(m, <<"app is not defined">>)
       ELSE IF fault = "fs" THEN Threw(m, <<"EACCES: permission denied">>)
       ELSE InstalledRegistry(
              registerRegistry(
                writeNativeHostManifest(m, p, definition, WinManifestPath(definition.hostName)),
                definition.hostName, WinManifestPath(definition.hostName), fault),
              getNativeHostManifestPath(p, definition.hostName))
  ELSE IF fault = "fs" THEN Threw(m, <<"EACCES: permission denied">>)
       ELSE Returned(
              writeNativeHostManifest(m, p, definition,
                                      getNativeHostManifestPath(p, definition.hostName)),
              getNativeHostManifestPath(p, definition.hostName))

\* The try block of uninstallHost on win32: the file the key's default
\* value names is unlinked; a key or a file that is not there makes the
\* block throw, which is caught.
UnlinkRegistered(m, hostName) ==
  [m EXCEPT !.files = {f \in @ : \A k \in m.registry : k.key = hostName => f.path # k.value}]

\* uninstallHost(hostName)
uninstallHost(m, p, hostName, message) ==
  IF p = "win32" THEN unregisterRegistry(UnlinkRegistered(m, hostName), hostName, message)
  ELSE Returned([m EXCEPT !.files = {f \in @ : f.path # getNativeHostManifestPath(p, hostName)}],
                "undefined")

\* checkHostStatus(hostName)
checkHostStatus(m, p, hostName) ==
  IF p = "win32" THEN \E k \in m.registry : k.key = hostName
  ELSE \E f \in m.files : f.path = getNativeHostManifestPath(p, hostName)

\* The files and the registry as the variables hold them.
Machine == [files |-> files, registry |-> registry]

\* The broker, which takes no part in the calls of the registry module.
broker ==
  <<wire, written, rawAt, received, inputBuffer, consumed, config, configFile, requests, stdout,
    replies, profile>>

\* The log after one more call.
Logged(entry) == IF Len(log) < 2 THEN Append(log, entry) ELSE <<log[2], entry>>

\* A call with outcome r was made for hostName.
Called(op, hostName, scriptPath, r) ==
  /\ files' = r.m.files
  /\ registry' = r.m.registry
  /\ log' = Logged([op |-> op, hostName |-> hostName, scriptPath |-> scriptPath,
                    threw |-> r.threw, returned |-> r.returned])
  /\ everInstalled' =
       IF op = "install" /\ ~r.threw THEN everInstalled \cup {hostName} ELSE everInstalled

InitInstall ==
  /\ wire = <<>>
  /\ written = 0
  /\ rawAt = {}
  /\ received = <<>>
  /\ inputBuffer = <<>>
  /\ consumed = 0
  /\ config = JObj(<<>>)
  /\ configFile = NoConfigFile
  /\ requests = <<>>
  /\ stdout = <<>>
  /\ replies = <<>>
  /\ profile = "stream"
  /\ platform \in Platforms
  /\ appBound \in BOOLEAN
  /\ files = {}
  /\ registry = {}
  /\ log = <<>>
  /\ everInstalled = {}
  /\ store = {}
  /\ ipc = [channel |-> "none"]

InstallHost ==
  \E hostName \in HostNames, scriptPath \in ScriptPaths, fault \in Faults :
    /\ Called("install", hostName, scriptPath,
              installHost(Machine, platform, appBound, Definition(hostName, scriptPath), fault))
    /\ UNCHANGED <<platform, appBound, broker, store, ipc>>

UninstallHost ==
  \E hostName \in HostNames, message \in DestroyMessages :
    /\ Called("uninstall", hostName, "", uninstallHost(Machine, platform, hostName, message))
    /\ UNCHANGED <<platform, appBound, broker, store, ipc>>

CheckHostStatus ==
  \E hostName \in HostNames :
    /\ Called("status", hostName, "",
              Returned(Machine, checkHostStatus(Machine, platform, hostName)))
    /\ UNCHANGED <<platform, appBound, broker, store, ipc>>

\* Somebody else deletes a manifest file.
DeleteManifest ==
  \E f \in files :
    /\ Called("delete", f.content.name, "",
              Returned([Machine EXCEPT !.files = @ \ {f}], "undefined"))
    /\ UNCHANGED <<platform, appBound, broker, store, ipc>>

NextInstall ==
  \/ InstallHost
  \/ UninstallHost
  \/ CheckHostStatus
  \/ DeleteManifest

InstallSpec == InitInstall /\ [][NextInstall]_vars

(***************************************************************************)
(* The management application: the IPC handlers of the main process        *)
(***************************************************************************)

\* getGenericHostScriptPath()
GenericHostScriptPath == "resources/agent-bridge-host.js"

\* store.HostConfig as the renderer sends it: the user's script under a
\* host name.
HostConfig(hostName, scriptPath) ==
  [hostName |-> hostName, description |-> "d", scriptPath |-> scriptPath,
   allowedOrigins |-> <<"o">>]

\* store.addHost(config): the host is kept under its name.
addHost(st, cfg) ==
  {c \in st : c.hostName # cfg.hostName}
    \cup {[hostName |-> cfg.hostName, scriptPath |-> cfg.scriptPath]}

\* store.removeHost(hostName)
removeHost(st, hostName) == {c \in st : c.hostName # hostName}

\* What a handler leaves: the machine, the store, the value it resolves
\* with and the outcomes of the calls it made of the registry module.
Handled(m, st, result, calls) == [m |-> m, store |-> st, result |-> result, calls |-> calls]

\* return { success: false, error: (error as Error).message }
Failure(message) == [success |-> FALSE, error |-> message]

\* The handler of 'install-host' calling installHost once more after it
\* threw, with again the outcome of the second call.
InstallHostSavedRetrying(r, again, st, cfg, storeFault) ==
  IF ~r.threw
  THEN IF storeFault THEN Handled(r.m, st, Failure(<<"EACCES: permission denied">>), <<r>>)
       ELSE Handled(r.m, addHost(st, cfg), [success |-> TRUE, path |-> r.returned], <<r>>)
  ELSE IF again.threw THEN Handled(again.m, st, Failure(again.message), <<r, again>>)
  ELSE Handled(again.m, addHost(st, cfg), [success |-> TRUE, path |-> again.returned],
               <<r, again>>)

\* Lines 109-123 of 'install-host' with r the outcome of installHost, and
\* again what one more call of it would give, which is not made: an error
\* is caught and returned, else the host is added to the store, which may
\* throw too.
InstallHostSaved(r, again, st, cfg, storeFault) ==
  IF r.threw THEN Handled(r.m, st, Failure(r.message), <<r>>)
  ELSE IF storeFault THEN Handled(r.m, st, Failure(<<"EACCES: permission denied">>), <<r>>)
  ELSE Handled(r.m, addHost(st, cfg), [success |-> TRUE, path |-> r.returned], <<r>>)

\* ipcMain.handle('install-host', ...): lines 101-124.
OnInstallHost(m, st, p, bound, cfg, scriptExists, fault, storeFault) ==
  IF ~scriptExists
  THEN Handled(m, st,
               Failure(<<"Could not find generic host script at ", GenericHostScriptPath>>), <<>>)
  ELSE InstallHostSaved(
         installHost(m, p, bound, Definition(cfg.hostName, GenericHostScriptPath), fault),
         installHost(m, p, bound, Definition(cfg.hostName, GenericHostScriptPath), "none"),
         st, cfg, storeFault)

\* The handler of 'uninstall-host' removing the host from the store
\* whatever uninstallHost did.
UninstallHostRemovedAlways(r, st, hostName, storeFault) ==
  IF r.threw THEN Handled(r.m, removeHost(st, hostName), Failure(r.message), <<r>>)
  ELSE IF storeFault THEN Handled(r.m, st, Failure(<<"EACCES: permission denied">>), <<r>>)
  ELSE Handled(r.m, removeHost(st, hostName), [success |-> TRUE], <<r>>)

\* Lines 134-144 of 'uninstall-host' with r the outcome of uninstallHost.
UninstallHostRemoved(r, st, hostName, storeFault) ==
  IF r.threw THEN Handled(r.m, st, Failure(r.message), <<r>>)
  ELSE IF storeFault THEN Handled(r.m, st, Failure(<<"EACCES: permission denied">>), <<r>>)
  ELSE Handled(r.m, removeHost(st, hostName), [success |-> TRUE], <<r>>)

\* ipcMain.handle('uninstall-host', ...): lines 132-145.
OnUninstallHost(m, st, p, hostName, message, storeFault) ==
  UninstallHostRemoved(uninstallHost(m, p, hostName, message), st, hostName, storeFault)

\* The calls of one handler as entries of the log.
Entries(op, hostName, scriptPath, calls) ==
  [i \in DOMAIN calls |->
     [op |-> op, hostName |-> hostName, scriptPath |-> scriptPath,
      threw |-> calls[i].threw, returned |-> calls[i].returned]]

\* The last two of a sequence of calls.
LastTwo(calls) == IF Len(calls) <= 2 THEN calls ELSE SubSeq(calls, Len(calls) - 1, Len(calls))

\* A handler was invoked on channel for hostName and left h.
Answered(channel, op, hostName, scriptPath, h) ==
  /\ files' = h.m.files
  /\ registry' = h.m.registry
  /\ store' = h.store
  /\ ipc' = [channel |-> channel,
             hostName |-> hostName,
             scriptPath |-> scriptPath,
             before |-> store,
             result |-> h.result,
             calls |-> [i \in DOMAIN h.calls |->
                          [threw |-> h.calls[i].threw, message |-> h.calls[i].message]]]
  /\ log' = LastTwo(log \o Entries(op, hostName, GenericHostScriptPath, h.calls))
  /\ everInstalled' =
       IF op = "install" /\ \E i \in DOMAIN h.calls : ~h.calls[i].threw
       THEN everInstalled \cup {hostName}
       ELSE everInstalled

\* The renderer invokes 'install-host'.
IpcInstallHost ==
  \E hostName \in HostNames, scriptPath \in ScriptPaths, scriptExists \in BOOLEAN,
     fault \in Faults, storeFault \in BOOLEAN :
    /\ Answered("install-host", "install", hostName, scriptPath,
                OnInstallHost(Machine, store, platform, appBound,
                              HostConfig(hostName, scriptPath), scriptExists, fault, storeFault))
    /\ UNCHANGED <<platform, appBound, broker>>

\* The renderer invokes 'uninstall-host'.
IpcUninstallHost ==
  \E hostName \in HostNames, message \in DestroyMessages, storeFault \in BOOLEAN :
    /\ Answered("uninstall-host", "uninstall", hostName, "",
                OnUninstallHost(Machine, store, platform, hostName, message, storeFault))
    /\ UNCHANGED <<platform, appBound, broker>>

NextApp ==
  \/ IpcInstallHost
  \/ IpcUninstallHost
  \/ DeleteManifest

AppSpec == InitInstall /\ [][NextApp]_vars

(***************************************************************************)
(* Properties                                                              *)
(***************************************************************************)

\* The replies written for request id, as indices into replies.
RepliesTo(id) == {i \in 1..Len(replies) : replies[i].req = id}

\* m has the shape {error: <string>}.
IsErrorReply(m) ==
  m.t = "obj" /\ Len(m.o) = 1 /\ m.o[1][1] = KeyError /\ m.o[1][2].t = "str"

\* Request id reached spawn: the call threw, or it returned a child.
ReachedSpawn(id) == requests[id].kind \in {"Spawned", "SpawnFailed"}

\* Request id is over: spawn threw, or its child has emitted 'close'.
Settled(id) == requests[id].kind = "SpawnFailed" \/ requests[id].child.state = "closed"

\* C1: a request that reached spawn never has two replies, and has exactly
\* one once spawn threw or its child has emitted 'close'.
C1_ExactlyOneReply ==
  \A id \in 1..Len(requests) :
    ReachedSpawn(id) =>
      /\ Cardinality(RepliesTo(id)) <= 1
      /\ Settled(id) => Cardinality(RepliesTo(id)) = 1

\* The child of some request could not be started, and both its 'error'
\* and its 'close' handler have replied.
C1_TwoReplies ==
  \E id \in 1..Len(requests) :
    /\ requests[id].child.state = "closed"
    /\ requests[id].child.file \notin Executables
    /\ Cardinality(RepliesTo(id)) = 2

FailureKinds ==
  {"MalformedEnvelope", "ConfigUnavailable", "HostNotFound", "ScriptMissing", "SpawnFailed"}

\* Request id has failed: synchronously with one of the failure kinds, or
\* its child could not be started and 'error' was emitted, or its child
\* closed with a code other than 0.
Failed(id) ==
  \/ requests[id].kind \in FailureKinds
  \/ /\ requests[id].kind = "Spawned"
     /\ requests[id].child.file \notin Executables
     /\ requests[id].child.state \in {"errored", "closed"}
  \/ /\ requests[id].child.state = "closed"
     /\ requests[id].child.exitCode # 0

\* C2: every failed request has a reply, and each of its replies has the
\* shape {error: <message>}.
C2_FailuresAnswered ==
  \A id \in 1..Len(requests) :
    Failed(id) =>
      /\ RepliesTo(id) # {}
      /\ \A i \in RepliesTo(id) : IsErrorReply(replies[i].msg)

\* One request failed for want of the config file, and the child of
\* another wrote to stderr, exited with status 2 and was answered.
C2_Witness ==
  \E id, other \in 1..Len(requests) :
    /\ requests[other].kind = "ConfigUnavailable"
    /\ requests[id].child.state = "closed"
    /\ requests[id].child.exitCode = 2
    /\ requests[id].child.errorOutput # <<>>
    /\ \E i \in RepliesTo(id) : IsErrorReply(replies[i].msg)

RECURSIVE DecodeAll(_)

\* The frames of DecodeAll, with d what TryDecodeOne found at the front.
DecodeRest(d) == IF d.complete THEN <<d.content>> \o DecodeAll(d.rest) ELSE <<>>

\* The contents of the frames decoded from buf given as one chunk.
DecodeAll(buf) == DecodeRest(TryDecodeOne(buf))

\* The contents of the frames dispatched so far, in the order of dispatch.
Dispatched == [i \in 1..Len(requests) |-> requests[i].content]

Recovers(v, r) == r.ok /\ r.v = v

\* Decoding found d at the front of n bytes: the frame is whole, its
\* content parses to v, and 4 + the byte length of v's JSON text was taken.
DecodesTo(v, d, n) ==
  /\ d.complete
  /\ Recovers(v, JSONParse(d.content))
  /\ n - Len(d.rest) = 4 + Len(Utf8Encode(Stringify(v)))

\* C4: for every message sendMessage wrote, decoding the bytes written
\* from its first byte on recovers the message as one frame and takes
\* 4 + length bytes, length being the byte count of its JSON text.
C4_RoundTrip ==
  \A i \in 1..Len(replies) :
    DecodesTo(replies[i].msg,
              TryDecodeOne(SubSeq(stdout, replies[i].at + 1, Len(stdout))),
              Len(stdout) - replies[i].at)

\* A message was written whose JSON text has more bytes than characters.
C4_Witness ==
  \E i \in 1..Len(replies) :
    Len(Utf8Encode(Stringify(replies[i].msg))) > Len(Stringify(replies[i].msg))

\* What TryDecodeOne finds in the stream received so far from offset off.
FrameAt(off) == TryDecodeOne(SubSeq(received, off + 1, Len(received)))

\* C5: the requests, in the order of their dispatch, are frames of the
\* stream at strictly increasing offsets.
C5_StreamOrder ==
  \A i \in 1..Len(requests) :
    /\ requests[i].start < Len(received)
    /\ FrameAt(requests[i].start).complete
    /\ FrameAt(requests[i].start).content = requests[i].content
    /\ \A j \in 1..Len(requests) : i < j => requests[i].start < requests[j].start

\* Two different frames were dispatched.
C5_Witness ==
  /\ Len(requests) = 2
  /\ requests[1].content # requests[2].content
  /\ requests[1].start < requests[2].start

\* The length the header at offset off of the stream announces.
HeaderAt(off) == ReadUInt32LE(SubSeq(received, off + 1, off + 4))

\* Where the frame of request i ends in the stream.
FrameEnd(i) == requests[i].start + requests[i].size

ReplyEnd(i) == IF i = Len(replies) THEN Len(stdout) ELSE replies[i + 1].at

\* bytes is the header announcing the length of body, then body.
FrameIs(bytes, body) ==
  /\ Len(bytes) = 4 + Len(body)
  /\ SubSeq(bytes, 1, 4) = WriteUInt32LE(Len(body))
  /\ SubSeq(bytes, 5, Len(bytes)) = body

\* C7: stdout is the replies one after another, each of them its 4-byte
\* length prefix followed at once by its own payload bytes and nothing
\* else.
C7_NoInterleaving ==
  /\ replies = <<>> => stdout = <<>>
  /\ \A i \in 1..Len(replies) :
       /\ replies[i].at = IF i = 1 THEN 0 ELSE ReplyEnd(i - 1)
       /\ replies[i].at <= ReplyEnd(i)
       /\ FrameIs(SubSeq(stdout, replies[i].at + 1, ReplyEnd(i)),
                  Utf8Encode(Stringify(replies[i].msg)))

\* Two requests had children at the same time, and the child of the
\* later one closed and was answered first.
C7_Witness ==
  /\ Len(replies) = 2
  /\ replies[1].req = 2
  /\ replies[2].req = 1
  /\ requests[1].kind = "Spawned"
  /\ requests[2].kind = "Spawned"

\* C8: while the child of a request runs, no whole frame waits in the
\* buffer: later frames are taken and dispatched all the same.
C8_NotSerialized ==
  (\E id \in 1..Len(requests) : requests[id].child.state = "running")
    => ~TryDecodeOne(inputBuffer).complete

\* The child of the first request still runs, and the second request has
\* its reply.
C8_Witness ==
  /\ Len(requests) = 2
  /\ requests[1].child.state = "running"
  /\ RepliesTo(1) = {}
  /\ RepliesTo(2) # {}

\* The child of request id ran and has closed.
RanAndClosed(id) ==
  /\ requests[id].kind = "Spawned"
  /\ requests[id].child.file \in Executables
  /\ requests[id].child.state = "closed"

\* The reply the close handler owes to a child c of its own.
OwnReply(c) == CloseMessage(c, c.exitCode, JSONParse(c.output))

\* C9: the reply to a request whose child ran and closed is computed from
\* the stdout, the stderr and the exit code of that child alone.
C9_OwnChildOnly ==
  \A i \in 1..Len(replies) :
    RanAndClosed(replies[i].req) => replies[i].msg = OwnReply(requests[replies[i].req].child)

\* Two requests to the same host had children at the same time, which
\* wrote different output; the later one was answered first.
C9_Witness ==
  /\ Len(requests) = 2
  /\ requests[1].content = requests[2].content
  /\ RanAndClosed(1)
  /\ RanAndClosed(2)
  /\ requests[1].child.output # requests[2].child.output
  /\ requests[1].child.output # <<>>
  /\ requests[2].child.output # <<>>
  /\ Len(replies) = 2
  /\ replies[1].req = 2

\* Request i, whose frame ends at offset end, is followed by the frame d
\* found there, if there is one.
FollowedBy(i, end, d) ==
  d.complete =>
    /\ Len(requests) > i
    /\ requests[i + 1].start = end
    /\ requests[i + 1].content = d.content

IsEnvelopeWithoutHostName(r) == r.ok /\ r.v.t = "obj" /\ ~ObjHas(r.v.o, KeyHostName)

\* The frame of request i holds an envelope that lacks hostName.
LacksHostName(i) == IsEnvelopeWithoutHostName(JSONParse(requests[i].content))

\* Request i started no child and has exactly one reply, {error: text}.
RefusedWith(i, text) ==
  /\ requests[i].child.state = "none"
  /\ \E r \in 1..Len(replies) : RepliesTo(i) = {r} /\ replies[r].msg = ErrorMessage(text)

\* C12 as stated: an envelope that lacks hostName starts no child and is
\* answered with the invalid-format error, whatever the state of the
\* config file.
C12_MissingHostNameInvalidFormat ==
  \A i \in 1..Len(requests) : LacksHostName(i) => RefusedWith(i, ErrInvalidFormat)

\* C12, amended: an envelope that lacks hostName starts no child and has
\* exactly one reply: the invalid-format error if the config file was there
\* when the request was dispatched, the config error if it was not.
C12_MissingHostNameRefused ==
  \A i \in 1..Len(requests) :
    LacksHostName(i) =>
      RefusedWith(i, IF requests[i].rev = "none" THEN ErrConfig ELSE ErrInvalidFormat)

\* Two envelopes without hostName were dispatched, the first without a
\* config file on disk, the second with one.
C12_Witness ==
  /\ Len(requests) = 2
  /\ LacksHostName(1)
  /\ LacksHostName(2)
  /\ requests[1].rev = "none"
  /\ requests[2].rev # "none"
  /\ Len(replies) = 2

\* The directory in the config file that was on disk when request i was
\* dispatched.
DirectoryAt(i) == ParsedConfigFile[CHOOSE f \in ConfigFiles : f.rev = requests[i].rev].v

\* r, the outcome of JSON.parse, is an envelope with a host name and a
\* payload.
NamesHost(r) ==
  /\ r.ok
  /\ r.v.t = "obj"
  /\ GetProp(r.v, KeyHostName).t = "str"
  /\ Truthy(GetProp(r.v, KeyHostName))
  /\ Truthy(GetProp(r.v, KeyPayload))

\* Request i, whose envelope r names a host the directory dir does not
\* hold, started no child and was told so.
UnknownHostRefused(i, r, dir) ==
  (NamesHost(r) /\ ~ObjHas(dir.o, GetProp(r.v, KeyHostName).s))
    => RefusedWith(i, ErrNoHost \o GetProp(r.v, KeyHostName).s)

\* Request i, whose envelope r names a host of dir with a script path
\* that is not on disk, started no child and has one reply, an error.
MissingScriptRefused(i, r, dir) ==
  (/\ NamesHost(r)
   /\ ObjHas(dir.o, GetProp(r.v, KeyHostName).s)
   /\ ~ExistsSync(GetProp(ObjGet(dir.o, GetProp(r.v, KeyHostName).s), KeyScriptPath)))
    => /\ requests[i].child.state = "none"
       /\ \E k \in 1..Len(replies) : RepliesTo(i) = {k} /\ IsErrorReply(replies[k].msg)

\* C13: with the directory loaded, a request for a host name that is not
\* in the directory starts no child and is answered with "No host
\* registered with name: <hostName>", and a request for a host whose
\* script path does not exist starts no child and is answered with an
\* error.
C13_SpawnOnlyResolved ==
  \A i \in 1..Len(requests) :
    requests[i].rev # "none" =>
      /\ UnknownHostRefused(i, JSONParse(requests[i].content), DirectoryAt(i))
      /\ MissingScriptRefused(i, JSONParse(requests[i].content), DirectoryAt(i))

\* A request for a host name that is not in the directory was answered
\* with the error of a missing script path.
C13_UnknownHostOtherReply ==
  \E i \in 1..Len(requests) :
    /\ requests[i].rev # "none"
    /\ requests[i].kind = "ScriptMissing"
    /\ NamesHost(JSONParse(requests[i].content))
    /\ ~ObjHas(DirectoryAt(i).o, GetProp(JSONParse(requests[i].content).v, KeyHostName).s)

\* The child of request id ran and exited with status 0.
ExitedWithZero(id) == RanAndClosed(id) /\ requests[id].child.exitCode = 0

\* The reply owed for the text a child wrote to its stdout before it exited
\* with status 0, with response the outcome of parsing that text.
SuccessReply(text, response) ==
  IF response.ok THEN response.v ELSE JObj(<< <<KeyResponse, JStr(text)>> >>)

\* The reply owed for the bytes a child wrote to its stdout.
SuccessReplyOf(bytes) == SuccessReply(Utf8Decode(bytes), JSONParse(Utf8Decode(bytes)))

\* C14: the reply to a request whose child exited with status 0 is the
\* value the bytes the child wrote to its stdout parse to as JSON, or
\* {response: <their text>} when they do not parse, whatever the child wrote
\* to its stderr.
C14_StdoutParsed ==
  \A i \in 1..Len(replies) :
    ExitedWithZero(replies[i].req) =>
      replies[i].msg = SuccessReplyOf(requests[replies[i].req].child.stdoutBytes)

\* A child wrote the bytes 22 C3 A9 22 in two 'data' events, exited with
\* status 0, and the reply is the string of two U+FFFD.
C14_SplitCharacter ==
  \E i \in 1..Len(replies) :
    /\ ExitedWithZero(replies[i].req)
    /\ requests[replies[i].req].child.stdoutBytes = <<34, 195, 169, 34>>
    /\ replies[i].msg = JStr(<<65533, 65533>>)

\* The child of request id ran and exited with a status other than 0.
ExitedWithFailure(id) == RanAndClosed(id) /\ requests[id].child.exitCode # 0

\* C15: the reply to a request whose child exited with a status other than
\* 0 is {error: "Script execution failed: " + <the text of all the bytes
\* the child wrote to its stderr>}, whatever the child wrote to its stdout.
C15_NonZeroExitReportsStderr ==
  \A i \in 1..Len(replies) :
    ExitedWithFailure(replies[i].req) =>
      replies[i].msg =
        ErrorMessage(ErrExecution \o Utf8Decode(requests[replies[i].req].child.stderrBytes))

\* A child wrote the bytes 22 C3 A9 22 to its stderr in two 'data' events,
\* exited with status 2, and the reply carries two U+FFFD between the
\* quotes.
C15_SplitCharacter ==
  \E i \in 1..Len(replies) :
    /\ ExitedWithFailure(replies[i].req)
    /\ requests[replies[i].req].child.stderrBytes = <<34, 195, 169, 34>>
    /\ replies[i].msg = ErrorMessage(ErrExecution \o <<34, 65533, 65533, 34>>)

\* The program a host definition hostConfig starts: interpreter || scriptPath.
FileOf(hostConfig) ==
  IF Truthy(GetProp(hostConfig, KeyInterpreter)) THEN GetProp(hostConfig, KeyInterpreter)
  ELSE GetProp(hostConfig, KeyScriptPath)

\* Request i was resolved to the definition hostConfig: its child was
\* spawned for the script and the program of that definition, or, the
\* script not being on disk, no child was spawned.
ResolvedTo(i, hostConfig) ==
  /\ (ExistsSync(GetProp(hostConfig, KeyScriptPath)) /\ FileOf(hostConfig).t = "str")
       => /\ requests[i].kind = "Spawned"
          /\ requests[i].child.scriptPath = GetProp(hostConfig, KeyScriptPath)
          /\ requests[i].child.file = FileOf(hostConfig).s
  /\ ~ExistsSync(GetProp(hostConfig, KeyScriptPath)) => requests[i].child.state = "none"

\* Request i for the host hostName was resolved against the directory dir.
ResolvedAgainst(i, hostName, dir) ==
  IF ObjHas(dir.o, hostName) THEN ResolvedTo(i, ObjGet(dir.o, hostName))
  ELSE requests[i].child.state = "none" /\ requests[i].kind # "Spawned"

\* Request i, whose envelope is r, was resolved against the config file
\* that was on disk when it was dispatched.
ResolvedFresh(i, r) ==
  NamesHost(r) =>
    IF requests[i].rev = "none" THEN requests[i].kind = "ConfigUnavailable"
    ELSE ResolvedAgainst(i, GetProp(r.v, KeyHostName).s, DirectoryAt(i))

\* C16: every request is resolved against the directory in the config
\* file as it was on disk when the request was dispatched, whatever the
\* file held at earlier requests, and keeps that resolution however the
\* file is edited afterwards.
C16_DirectoryReadFresh ==
  \A i \in 1..Len(requests) : ResolvedFresh(i, JSONParse(requests[i].content))

\* Two requests for host "a" with an edit of the directory between them:
\* the child of the first, started under the interpreter of the first
\* revision, is still running, the second runs the script itself, and the
\* file on disk is the second revision.
C16_Witness ==
  /\ Len(requests) = 2
  /\ requests[1].content = requests[2].content
  /\ requests[1].rev = "first"
  /\ requests[2].rev = "second"
  /\ configFile.rev = "second"
  /\ requests[1].child.state = "running"
  /\ requests[1].child.file = <<112>>
  /\ requests[2].child.state = "running"
  /\ requests[2].child.file = <<47, 115>>

\* The last call of the registry module.
LastCall == log[Len(log)]

\* The last two calls were op, which returned, and then status, both for
\* the same host.
ThenStatus(op) ==
  /\ Len(log) = 2
  /\ log[1].op = op
  /\ ~log[1].threw
  /\ log[2].op = "status"
  /\ log[2].hostName = log[1].hostName

\* status right after install returns true.
InstallThenStatus == ThenStatus("install") => log[2].returned = TRUE

\* status right after uninstall returns false.
UninstallThenStatus == ThenStatus("uninstall") => log[2].returned = FALSE

\* The last call was uninstall for a host installHost never returned for.
UninstalledNeverInstalled ==
  /\ Len(log) >= 1
  /\ LastCall.op = "uninstall"
  /\ LastCall.hostName \notin everInstalled

\* C17: on every platform, status right after an install that returned
\* gives true, status right after an uninstall that returned gives false,
\* and uninstall of a host that was never installed does not throw.
C17_InstallUninstallStatus ==
  /\ InstallThenStatus
  /\ UninstallThenStatus
  /\ UninstalledNeverInstalled => ~LastCall.threw

\* On win32 uninstall was called for a host that was never installed, and
\* it threw.
C17_UninstallThrew ==
  /\ platform = "win32"
  /\ UninstalledNeverInstalled
  /\ LastCall.threw

\* The registration records of hostName: its keys in the registry on
\* win32, the manifest files at its path elsewhere.
Records(hostName) ==
  IF platform = "win32" THEN {k \in registry : k.key = hostName}
  ELSE {f \in files : f.path = getNativeHostManifestPath(platform, hostName)}

\* The manifest files the records of hostName designate.
Designated(hostName) ==
  IF platform = "win32"
  THEN {f \in files : \E k \in registry : k.key = hostName /\ k.value = f.path}
  ELSE {f \in files : f.path = getNativeHostManifestPath(platform, hostName)}

\* The last two calls were installs of the same host with different
\* script paths, and both returned.
InstalledTwice ==
  /\ Len(log) = 2
  /\ log[1].op = "install" /\ ~log[1].threw
  /\ log[2].op = "install" /\ ~log[2].threw
  /\ log[1].hostName = log[2].hostName
  /\ log[1].scriptPath # log[2].scriptPath

\* hostName has one record, which designates a manifest whose path is
\* scriptPath, and no manifest of hostName has the path replaced.
OnlyActive(hostName, scriptPath, replaced) ==
  /\ Cardinality(Records(hostName)) = 1
  /\ Designated(hostName) # {}
  /\ \A f \in Designated(hostName) : f.content.path = scriptPath
  /\ \A f \in files : f.content.name = hostName => f.content.path # replaced

InstalledOnWin32 ==
  /\ platform = "win32"
  /\ Len(log) >= 1
  /\ LastCall.op = "install"
  /\ ~LastCall.threw

\* The registry holds the key of hostName with the path of its manifest
\* in the data directory as the default value.
Registered(hostName) == [key |-> hostName, value |-> WinManifestPath(hostName)] \in registry

HasKey(hostName) == \E k \in registry : k.key = hostName

\* hostName has a key, and the file its default value names exists.
KeyAndFile(hostName) == \E k \in registry, f \in files : k.key = hostName /\ f.path = k.value

\* After uninstall of a host, the host has no key, dangling or not.
UninstallRemovesKey ==
  (Len(log) >= 1 /\ LastCall.op = "uninstall") => ~HasKey(LastCall.hostName)

Invoked == ipc.channel # "none"

\* The call a handler made of the registry module threw.
BackendThrew == \E i \in DOMAIN ipc.calls : ipc.calls[i].threw

\* C21: a handler of 'install-host' or 'uninstall-host' resolves with a
\* result; it called the registry module at most once; when that call
\* threw, the result is {success: false, error: <the message thrown>};
\* the result is a success only when the call returned; and every result
\* that is no success carries a message.
C21_FailuresSurfaced ==
  Invoked =>
    /\ Len(ipc.calls) <= 1
    /\ \A i \in DOMAIN ipc.calls :
         ipc.calls[i].threw => ipc.result = Failure(ipc.calls[i].message)
    /\ ipc.result.success => (Len(ipc.calls) = 1 /\ ~ipc.calls[1].threw)
    /\ ~ipc.result.success => ("error" \in DOMAIN ipc.result /\ ipc.result.error # <<>>)

\* 'install-host' was answered with the error regKey.create reported, and
\* no key was made.
C21_Witness ==
  /\ Invoked
  /\ ipc.channel = "install-host"
  /\ BackendThrew
  /\ ipc.result = Failure(<<"Failed to create registry key: ", "Access is denied.">>)
  /\ ~\E k \in registry : k.key = ipc.hostName

\* r, the outcome of JSON.parse, is an envelope that carries a host name,
\* a string that is not empty, and a payload, whatever its value.
CarriesBoth(r) ==
  /\ r.ok
  /\ r.v.t = "obj"
  /\ ObjHas(r.v.o, KeyHostName)
  /\ ObjHas(r.v.o, KeyPayload)
  /\ GetProp(r.v, KeyHostName).t = "str"
  /\ Truthy(GetProp(r.v, KeyHostName))

\* Request i was answered with the malformed-envelope error.
ToldMalformed(i) ==
  \E k \in RepliesTo(i) : replies[k].msg = ErrorMessage(ErrInvalidFormat)

\* C22: a request whose envelope carries both hostName and payload is not
\* answered with the malformed-envelope error, whatever JSON value the
\* payload is.
C22_PayloadValueIrrelevant ==
  \A i \in 1..Len(requests) : CarriesBoth(JSONParse(requests[i].content)) => ~ToldMalformed(i)

\* The request {"hostName":"a","payload":0} was answered with the
\* malformed-envelope error.
C22_ZeroPayloadRefused ==
  \E i \in 1..Len(requests) :
    /\ requests[i].content = Stringify(Envelope(<<97>>, JNum(0)))
    /\ ToldMalformed(i)

\* The process of request id was started.
Started(id) == requests[id].kind = "Spawned" /\ requests[id].child.file \in Executables

\* The stdin of the child of request id, whose envelope is r, holds the
\* JSON text of the payload, once, and was ended.
PayloadWritten(id, r) ==
  /\ requests[id].child.stdin = Utf8Encode(Stringify(GetProp(r.v, KeyPayload)))
  /\ requests[id].child.stdinEnded

\* C23: from the moment a child is started, before any of its output is
\* read and ever after, its stdin holds the JSON text of the payload of
\* its request, once and nothing else, and has been ended.
C23_PayloadOnlyThenClosed ==
  \A id \in 1..Len(requests) :
    Started(id) => PayloadWritten(id, JSONParse(requests[id].content))

\* The child of a request for host a with the payload {"hostName":"g"}
\* runs, none of its output has been read, and its stdin holds that
\* object's text and is ended.
C23_Witness ==
  \E id \in 1..Len(requests) :
    /\ Started(id)
    /\ requests[id].child.state = "running"
    /\ requests[id].child.chunks = 0
    /\ requests[id].child.stdin =
         Utf8Encode(Stringify(JObj(<< <<KeyHostName, JStr(<<103>>)>> >>)))
    /\ requests[id].child.stdinEnded

\* The last call was uninstall on win32.
UninstalledOnWin32 ==
  /\ platform = "win32"
  /\ Len(log) >= 1
  /\ LastCall.op = "uninstall"

\* uninstall right after an install of the same host that returned, whose
\* key names a file that is not there: it returns and the key is gone.
UninstallOfDanglingKey ==
  (/\ UninstalledOnWin32
   /\ Len(log) = 2
   /\ log[1].op = "install"
   /\ ~log[1].threw
   /\ log[1].hostName = log[2].hostName)
    => (~LastCall.threw /\ ~HasKey(LastCall.hostName))

\* C24: uninstall on win32 returns, whether or not the key was there, its
\* value could be read and the file it names could be deleted, and leaves
\* the host without its key and without the file the key named.
C24_UninstallCompletes ==
  UninstalledOnWin32 =>
    /\ ~LastCall.threw
    /\ ~HasKey(LastCall.hostName)
    /\ \A f \in files : f.path # WinManifestPath(LastCall.hostName)

\* On win32 uninstall of a host returned, and uninstall of the same host
\* right after it, with the key gone, threw.
C24_SecondUninstallThrew ==
  /\ UninstalledOnWin32
  /\ Len(log) = 2
  /\ log[1].op = "uninstall"
  /\ ~log[1].threw
  /\ log[1].hostName = log[2].hostName
  /\ log[2].threw

\* buf holds no whole frame: not even a header, or fewer bytes than the
\* header and the payload it announces.
HoldsNoFrame(buf) == Len(buf) < 4 \/ Len(buf) < 4 + ReadUInt32LE(buf)

\* Where the last dispatched frame ends in the stream received.
LastFrameEnd == IF requests = <<>> THEN 0 ELSE FrameEnd(Len(requests))

BackendReturned == Len(ipc.calls) = 1 /\ ~ipc.calls[1].threw

\* The store after the last handler, had it done its store step.
StoreStepDone ==
  IF ipc.channel = "install-host"
  THEN addHost(ipc.before, HostConfig(ipc.hostName, ipc.scriptPath))
  ELSE removeHost(ipc.before, ipc.hostName)

\* C26: after a handler of 'install-host' or 'uninstall-host' the store is
\* the one before it unless the one call of the registry module returned;
\* then it is either unchanged or the store with the host added, for
\* 'install-host', or removed, for 'uninstall-host'; and the handler
\* answers success only with the store step done.
C26_StoreFollowsBackend ==
  Invoked =>
    /\ ~BackendReturned => store = ipc.before
    /\ store \in {ipc.before, StoreStepDone}
    /\ ipc.result.success => store = StoreStepDone

\* 'uninstall-host' was asked for a host of the store, uninstallHost threw
\* and the host is still in the store.
C26_Witness ==
  /\ Invoked
  /\ ipc.channel = "uninstall-host"
  /\ BackendThrew
  /\ \E c \in store : c.hostName = ipc.hostName
  /\ store = ipc.before

====
